---- MODULE Spec2Model ----
(***************************************************************************)
(* Spatial data platform: a REST front end (src/app) and a GraphQL front   *)
(* end (src/graphql_app) over one PostGIS database with three tables       *)
(* (users, points, polygons) and JWT bearer authentication.                *)
(*                                                                         *)
(* Time is counted in minutes.  Coordinates are whole degrees.             *)
(***************************************************************************)
EXTENDS Integers, Sequences, FiniteSets, TLC

\* ------------------------------------------------------------------------
\* Bounds of the model
\* ------------------------------------------------------------------------
MaxPoints == 2
MaxPolygons == 1
MaxUsers == 3
MaxTicks == 3
MaxIssued == 2

\* ------------------------------------------------------------------------
\* Program constants
\* ------------------------------------------------------------------------
ACCESS_TOKEN_EXPIRE_MINUTES == 60
\* The default of the limit parameter of the list endpoints.
DefaultLimit == 100
SRID == 4326

NoneVal == "None"

\* ------------------------------------------------------------------------
\* Python / JSON values.  A value is a number, a string, a list or a tuple;
\* lists and tuples carry their items.
\* ------------------------------------------------------------------------
JNum(n) == [k |-> "num", v |-> n, items |-> <<>>]
JStr == [k |-> "str", v |-> 0, items |-> <<>>]
JList(s) == [k |-> "list", v |-> 0, items |-> s]
JTuple(s) == [k |-> "tuple", v |-> 0, items |-> s]

\* A GeoJSON object: a dict with the keys "type" and "coordinates".
GeoJSON(t, c) == [type |-> t, coordinates |-> c]

\* A position [x, y] and a ring [[x, y], ...] as the client writes them.
JPos(p) == JList(<<JNum(p[1]), JNum(p[2])>>)
JRing(r) == JList([i \in DOMAIN r |-> JPos(r[i])])
PointJSON(p) == GeoJSON("Point", JPos(p))
PolygonJSON(rings) == GeoJSON("Polygon", JList([i \in DOMAIN rings |-> JRing(rings[i])]))

\* ------------------------------------------------------------------------
\* Geometry values (shapely geometry / WKB element with srid 4326)
\* ------------------------------------------------------------------------
PointGeom(p) == [gtype |-> "Point", pos |-> p, rings |-> <<>>, srid |-> SRID]
PolygonGeom(rings) == [gtype |-> "Polygon", pos |-> <<>>, rings |-> rings, srid |-> SRID]
NoGeom == [gtype |-> NoneVal, pos |-> <<>>, rings |-> <<>>, srid |-> 0]

IsArray(j) == j.k \in {"list", "tuple"}
IsPosition(j) == IsArray(j) /\ Len(j.items) = 2 /\ \A i \in 1..2 : j.items[i].k = "num"
PosOf(j) == <<j.items[1].v, j.items[2].v>>
IsRingArray(j) == IsArray(j) /\ \A i \in DOMAIN j.items : IsPosition(j.items[i])
RingOf(j) == [i \in DOMAIN j.items |-> PosOf(j.items[i])]

\* shapely closes a ring whose last position differs from its first.
CloseRing(r) == IF Len(r) > 0 /\ r[1] # r[Len(r)] THEN Append(r, r[1]) ELSE r
\* A linear ring needs at least four positions once closed.
RingOk(j) == IsRingArray(j) /\ Len(CloseRing(RingOf(j))) >= 4

\* shape(geojson): ok = FALSE stands for the exception shapely raises.
\* Positions with a z ordinate and empty coordinate arrays are outside the
\* inputs enumerated below.
shape(g) ==
    IF g.type = "Point" /\ IsPosition(g.coordinates)
    THEN [ok |-> TRUE, geom |-> PointGeom(PosOf(g.coordinates))]
    ELSE IF /\ g.type = "Polygon"
            /\ IsArray(g.coordinates)
            /\ Len(g.coordinates.items) >= 1
            /\ \A i \in DOMAIN g.coordinates.items : RingOk(g.coordinates.items[i])
    THEN [ok |-> TRUE,
          geom |-> PolygonGeom([i \in DOMAIN g.coordinates.items |->
                                   CloseRing(RingOf(g.coordinates.items[i]))])]
    ELSE [ok |-> FALSE, geom |-> NoGeom]

\* mapping(to_shape(geom)): shapely reports coordinates as nested tuples.
TPos(p) == JTuple(<<JNum(p[1]), JNum(p[2])>>)
TRing(r) == JTuple([i \in DOMAIN r |-> TPos(r[i])])
mapping(geom) ==
    IF geom.gtype = "Point"
    THEN GeoJSON("Point", TPos(geom.pos))
    ELSE GeoJSON("Polygon", JTuple([i \in DOMAIN geom.rings |-> TRing(geom.rings[i])]))

\* tuple_to_list on a value: a tuple becomes a list of the same items, a
\* list is rebuilt from its converted items, anything else is returned.
RECURSIVE tuple_to_list_value(_)
tuple_to_list_value(obj) ==
    IF obj.k = "tuple" THEN JList(obj.items)
    ELSE IF obj.k = "list"
    THEN JList([i \in DOMAIN obj.items |-> tuple_to_list_value(obj.items[i])])
    ELSE obj

\* tuple_to_list on the GeoJSON dict: every value of the dict is converted;
\* the "type" string is returned as it is.
tuple_to_list(g) == GeoJSON(g.type, tuple_to_list_value(g.coordinates))

\* JSON serialisation of a response: tuples and lists are both written as
\* arrays.
RECURSIVE ToWireValue(_)
ToWireValue(obj) ==
    IF IsArray(obj)
    THEN JList([i \in DOMAIN obj.items |-> ToWireValue(obj.items[i])])
    ELSE obj
ToWire(g) == GeoJSON(g.type, ToWireValue(g.coordinates))

\* ------------------------------------------------------------------------
\* Request schemas (pydantic validators)
\* ------------------------------------------------------------------------
validate_point(v) == ~(v.type # "Point" \/ v.coordinates.k # "list")
validate_polygon(v) == ~(v.type # "Polygon" \/ v.coordinates.k # "list")

\* ------------------------------------------------------------------------
\* Credentials and tokens
\* ------------------------------------------------------------------------
\* bcrypt: the hash is not the password; salts are not distinguished.
get_password_hash(password) == [alg |-> "bcrypt", of |-> password]
verify_password(plain_password, hashed_password) ==
    hashed_password = get_password_hash(plain_password)

\* A bearer token as the server sees it: present (an Authorization header
\* was sent), wf (it parses as a JWT), sig (HS256 signature under SECRET_KEY
\* is "good" or "bad"), and the claims sub and exp.
Token(sub, exp) == [present |-> TRUE, wf |-> TRUE, sig |-> "good", sub |-> sub, exp |-> exp]
NoToken == [present |-> FALSE, wf |-> FALSE, sig |-> "bad", sub |-> NoneVal, exp |-> 0]
MalformedToken == [present |-> TRUE, wf |-> FALSE, sig |-> "bad", sub |-> NoneVal, exp |-> 0]
BadSigToken(sub, exp) == [Token(sub, exp) EXCEPT !.sig = "bad"]

create_access_token(sub, utcnow) == Token(sub, utcnow + ACCESS_TOKEN_EXPIRE_MINUTES)

\* jwt.decode called with options={"verify_exp": False}.
jwt_decode_without_exp(token, utcnow) ==
    IF ~token.wf \/ token.sig # "good"
    THEN [ok |-> FALSE, sub |-> NoneVal]
    ELSE [ok |-> TRUE, sub |-> token.sub]

\* jose's jwt.decode: JWTError for a token that does not parse, whose
\* signature does not verify, or whose exp is smaller than the current time.
jwt_decode(token, utcnow) ==
    IF ~token.wf \/ token.sig # "good" \/ token.exp < utcnow
    THEN [ok |-> FALSE, sub |-> NoneVal]
    ELSE [ok |-> TRUE, sub |-> token.sub]

NoRow == [id |-> 0]

get_user_by_username(users, username) ==
    IF \E u \in users : u.username = username
    THEN CHOOSE u \in users : u.username = username
    ELSE NoRow

\* get_current_user that does not reject a subject without a user record.
app_get_current_user_no_user_check(token, users, utcnow) ==
    IF ~token.present
    THEN [status |-> 401, detail |-> "Not authenticated", user |-> NoRow, touched |-> {}]
    ELSE LET payload == jwt_decode(token, utcnow) IN
         IF ~payload.ok \/ payload.sub = NoneVal
         THEN [status |-> 401, detail |-> "Could not validate credentials",
               user |-> NoRow, touched |-> {}]
         ELSE [status |-> 0, detail |-> "",
               user |-> get_user_by_username(users, payload.sub), touched |-> {"users"}]

\* app.main.get_current_user behind OAuth2PasswordBearer.  status 0 means
\* the dependency returned a user.
app_get_current_user(token, users, utcnow) ==
    IF ~token.present
    THEN [status |-> 401, detail |-> "Not authenticated", user |-> NoRow, touched |-> {}]
    ELSE LET payload == jwt_decode(token, utcnow) IN
         IF ~payload.ok \/ payload.sub = NoneVal
         THEN [status |-> 401, detail |-> "Could not validate credentials",
               user |-> NoRow, touched |-> {}]
         ELSE LET user == get_user_by_username(users, payload.sub) IN
              IF user = NoRow
              THEN [status |-> 401, detail |-> "Could not validate credentials",
                    user |-> NoRow, touched |-> {"users"}]
              ELSE [status |-> 0, detail |-> "", user |-> user, touched |-> {"users"}]

\* graphql_app.schema.get_current_user: NoRow stands for None.
gql_get_current_user(token, users, utcnow) ==
    IF ~token.present
    THEN NoRow
    ELSE LET payload == jwt_decode(token, utcnow) IN
         IF ~payload.ok \/ payload.sub = NoneVal
         THEN NoRow
         ELSE LET user == get_user_by_username(users, payload.sub) IN
              IF user # NoRow THEN [id |-> user.id, username |-> user.username] ELSE NoRow

\* create_user on a users table without the unique index on username.
create_user_without_unique_index(users, seq, username, password) ==
    LET db_user == [id |-> seq, username |-> username,
                    hashed_password |-> get_password_hash(password)] IN
    [ok |-> TRUE, users |-> users \cup {db_user}, seq |-> seq + 1, row |-> db_user]

\* create_user (both crud modules): the row is inserted unless the unique
\* index on username rejects it (IntegrityError, rolled back).  The id
\* sequence advances on every attempted insert.
create_user(users, seq, username, password) ==
    LET db_user == [id |-> seq, username |-> username,
                    hashed_password |-> get_password_hash(password)] IN
    IF \E u \in users : u.username = username
    THEN [ok |-> FALSE, users |-> users, seq |-> seq + 1, row |-> NoRow]
    ELSE [ok |-> TRUE, users |-> users \cup {db_user}, seq |-> seq + 1, row |-> db_user]

\* authenticate_user that does not verify the password.
authenticate_user_any_password(users, username, password) ==
    get_user_by_username(users, username)

authenticate_user(users, username, password) ==
    LET user == get_user_by_username(users, username) IN
    IF user = NoRow THEN NoRow
    ELSE IF ~verify_password(password, user.hashed_password) THEN NoRow
    ELSE user

\* ------------------------------------------------------------------------
\* PostGIS operators on the stored geometries (planar, SRID units)
\* ------------------------------------------------------------------------
Edges(ring) == 1..(Len(ring) - 1)

\* p lies on the segment a-b.
OnSegment(p, a, b) ==
    /\ (b[1] - a[1]) * (p[2] - a[2]) = (b[2] - a[2]) * (p[1] - a[1])
    /\ (p[1] - a[1]) * (p[1] - b[1]) <= 0
    /\ (p[2] - a[2]) * (p[2] - b[2]) <= 0

OnRing(p, ring) == \E i \in Edges(ring) : OnSegment(p, ring[i], ring[i + 1])

\* The segment a-b crosses the half line that leaves p towards +x.
Crosses(p, a, b) ==
    /\ (a[2] > p[2]) # (b[2] > p[2])
    /\ IF b[2] > a[2]
       THEN (p[1] - a[1]) * (b[2] - a[2]) < (p[2] - a[2]) * (b[1] - a[1])
       ELSE (p[1] - a[1]) * (b[2] - a[2]) > (p[2] - a[2]) * (b[1] - a[1])

InsideRing(p, ring) ==
    /\ ~OnRing(p, ring)
    /\ Cardinality({i \in Edges(ring) : Crosses(p, ring[i], ring[i + 1])}) % 2 = 1

\* p is in the interior of the polygon: inside the shell, and neither in
\* nor on a hole.
InPolygonInterior(p, rings) ==
    /\ InsideRing(p, rings[1])
    /\ \A h \in 2..Len(rings) : ~InsideRing(p, rings[h]) /\ ~OnRing(p, rings[h])

\* The closed region of the polygon: p is inside it or on its boundary.
InPolygonClosed(p, rings) ==
    /\ InsideRing(p, rings[1]) \/ OnRing(p, rings[1])
    /\ \A h \in 2..Len(rings) : ~InsideRing(p, rings[h])

\* ST_Within(a, b).  A point is within a point equal to it and within a
\* polygon whose interior holds it.  A polygon is within no point; it is
\* within a polygon b when b's closed region holds its shell (exact for a
\* convex b without holes, as the rectangles of the inputs are).
ST_Within(a, b) ==
    IF a.gtype = "Point"
    THEN IF b.gtype = "Point" THEN a.pos = b.pos
         ELSE InPolygonInterior(a.pos, b.rings)
    ELSE /\ b.gtype = "Polygon"
         /\ \A i \in DOMAIN a.rings[1] : InPolygonClosed(a.rings[1][i], b.rings)

\* ST_Contains(a, b) is ST_Within(b, a).
ST_Contains(a, b) == ST_Within(b, a)

\* The distance of p to the segment a-b is at most radius.
SegmentDWithin(p, a, b, radius) ==
    LET dx == b[1] - a[1]
        dy == b[2] - a[2]
        wx == p[1] - a[1]
        wy == p[2] - a[2]
        c1 == wx * dx + wy * dy
        c2 == dx * dx + dy * dy IN
    IF c1 <= 0 THEN wx * wx + wy * wy <= radius * radius
    ELSE IF c1 >= c2
    THEN (p[1] - b[1]) * (p[1] - b[1]) + (p[2] - b[2]) * (p[2] - b[2]) <= radius * radius
    ELSE (wx * wx + wy * wy) * c2 - c1 * c1 <= radius * radius * c2

\* ST_DWithin on geometry columns, for a point a: Cartesian distance in the
\* units of the SRID (degrees for 4326); a negative tolerance is an error.
ST_DWithin(a, b, radius) ==
    IF b.gtype = "Point"
    THEN LET dx == a.pos[1] - b.pos[1]
             dy == a.pos[2] - b.pos[2] IN
         dx * dx + dy * dy <= radius * radius
    ELSE \/ InPolygonClosed(a.pos, b.rings)
         \/ \E h \in DOMAIN b.rings : \E i \in Edges(b.rings[h]) :
                SegmentDWithin(a.pos, b.rings[h][i], b.rings[h][i + 1], radius)

\* ------------------------------------------------------------------------
\* points table: app.crud (REST).  A result carries raised (0: returned; 422:
\* HTTPException; 500: an exception nothing catches), the table and id
\* sequence afterwards, and the returned row (NoRow for None).
\* ------------------------------------------------------------------------
\* The column accepts only geometries of its declared type; the id sequence
\* advances whenever an INSERT is attempted.
app_crud_create_point(points, seq, point) ==
    LET s == shape(point.location) IN
    IF ~s.ok
    THEN [raised |-> 422, detail |-> "Invalid GeoJSON for Point",
          table |-> points, seq |-> seq, row |-> NoRow, wrote |-> FALSE]
    ELSE LET db_point == [id |-> seq, name |-> point.name,
                         description |-> point.description, location |-> s.geom] IN
         IF s.geom.gtype # "Point"
         THEN [raised |-> 500, detail |-> "Internal Server Error",
               table |-> points, seq |-> seq + 1, row |-> NoRow, wrote |-> TRUE]
         ELSE [raised |-> 0, detail |-> "", table |-> points \cup {db_point},
               seq |-> seq + 1, row |-> db_point, wrote |-> TRUE]

get_point(points, point_id) ==
    IF \E r \in points : r.id = point_id
    THEN CHOOSE r \in points : r.id = point_id
    ELSE NoRow

\* db.query(...).offset(skip).limit(limit).all(), for one row order o.
app_crud_get_points(o, skip, limit) ==
    LET stop == IF skip + limit < Len(o) THEN skip + limit ELSE Len(o) IN
    SubSeq(o, skip + 1, stop)

\* update_point that never assigns the description.
app_crud_update_point_keeps_description(points, point_id, point) ==
    LET db_point == get_point(points, point_id) IN
    IF db_point = NoRow
    THEN [raised |-> 0, detail |-> "", table |-> points, row |-> NoRow, wrote |-> FALSE]
    ELSE LET s == shape(point.location) IN
         IF ~s.ok \/ s.geom.gtype # "Point"
         THEN [raised |-> 422, detail |-> "Invalid GeoJSON for Point",
               table |-> points, row |-> NoRow, wrote |-> s.ok]
         ELSE LET updated == [db_point EXCEPT !.name = point.name, !.location = s.geom] IN
              [raised |-> 0, detail |-> "", table |-> (points \ {db_point}) \cup {updated},
               row |-> updated, wrote |-> TRUE]

\* name and description are assigned to the loaded row before the geometry
\* is built; rollback discards the assignments.
app_crud_update_point(points, point_id, point) ==
    LET db_point == get_point(points, point_id) IN
    IF db_point = NoRow
    THEN [raised |-> 0, detail |-> "", table |-> points, row |-> NoRow, wrote |-> FALSE]
    ELSE LET pending == [db_point EXCEPT !.name = point.name,
                                        !.description = point.description]
             s == shape(point.location) IN
         IF ~s.ok
         THEN [raised |-> 422, detail |-> "Invalid GeoJSON for Point",
               table |-> points, row |-> NoRow, wrote |-> FALSE]
         ELSE IF s.geom.gtype # "Point"
         THEN [raised |-> 422, detail |-> "Invalid GeoJSON for Point",
               table |-> points, row |-> NoRow, wrote |-> TRUE]
         ELSE LET updated == [pending EXCEPT !.location = s.geom] IN
              [raised |-> 0, detail |-> "", table |-> (points \ {db_point}) \cup {updated},
               row |-> updated, wrote |-> TRUE]

app_crud_delete_point(points, point_id) ==
    LET db_point == get_point(points, point_id) IN
    IF db_point = NoRow
    THEN [table |-> points, row |-> NoRow, wrote |-> FALSE]
    ELSE [table |-> points \ {db_point}, row |-> db_point, wrote |-> TRUE]

\* point_to_schema: the PointOut model, whose validator checks the encoded
\* geometry again.
point_to_schema(db_point) ==
    LET geojson == tuple_to_list(mapping(db_point.location)) IN
    [valid |-> validate_point(geojson), id |-> db_point.id, name |-> db_point.name,
     description |-> db_point.description, location |-> geojson]

\* The JSON body FastAPI writes for a PointOut.
PointOutJSON(out) ==
    [id |-> out.id, name |-> out.name, description |-> out.description,
     location |-> ToWire(out.location)]

\* ------------------------------------------------------------------------
\* points table: graphql_app.crud.  raised is 0 or 500 (the exception reaches
\* the GraphQL executor); row NoRow stands for None.
\* ------------------------------------------------------------------------
gql_crud_create_point(points, seq, name, description, location) ==
    LET s == shape(location) IN
    IF ~s.ok
    THEN [raised |-> 0, table |-> points, seq |-> seq, row |-> NoRow, wrote |-> FALSE]
    ELSE LET db_point == [id |-> seq, name |-> name,
                         description |-> description, location |-> s.geom] IN
         IF s.geom.gtype # "Point"
         THEN [raised |-> 500, table |-> points, seq |-> seq + 1, row |-> NoRow,
               wrote |-> TRUE]
         ELSE [raised |-> 0, table |-> points \cup {db_point}, seq |-> seq + 1,
               row |-> db_point, wrote |-> TRUE]

gql_crud_update_point(points, point_id, name, description, location) ==
    LET db_point == get_point(points, point_id) IN
    IF db_point = NoRow
    THEN [table |-> points, row |-> NoRow, wrote |-> FALSE]
    ELSE LET pending == [db_point EXCEPT !.name = name, !.description = description]
             s == shape(location) IN
         IF ~s.ok
         THEN [table |-> points, row |-> NoRow, wrote |-> FALSE]
         ELSE IF s.geom.gtype # "Point"
         THEN [table |-> points, row |-> NoRow, wrote |-> TRUE]
         ELSE LET updated == [pending EXCEPT !.location = s.geom] IN
              [table |-> (points \ {db_point}) \cup {updated}, row |-> updated,
               wrote |-> TRUE]

\* delete_point whose "return True" is outside the "if db_point:" block.
gql_crud_delete_point_returns_true(points, point_id) ==
    LET db_point == get_point(points, point_id) IN
    IF db_point = NoRow
    THEN [table |-> points, ret |-> TRUE, wrote |-> FALSE]
    ELSE [table |-> points \ {db_point}, ret |-> TRUE, wrote |-> TRUE]

gql_crud_delete_point(points, point_id) ==
    LET db_point == get_point(points, point_id) IN
    IF db_point = NoRow
    THEN [table |-> points, ret |-> FALSE, wrote |-> FALSE]
    ELSE [table |-> points \ {db_point}, ret |-> TRUE, wrote |-> TRUE]

\* point_to_dict, then the JSON scalar's json.dumps.
point_to_dict(db_point) ==
    [id |-> db_point.id, name |-> db_point.name, description |-> db_point.description,
     location |-> tuple_to_list(mapping(db_point.location))]

PointGraphJSON(d) ==
    [id |-> d.id, name |-> d.name, description |-> d.description, location |-> ToWire(d.location)]

\* ------------------------------------------------------------------------
\* polygons table: app.crud (REST).  A result carries raised (0: returned; 422:
\* HTTPException; 500: an exception nothing catches), the table and id
\* sequence afterwards, and the returned row (NoRow for None).
\* ------------------------------------------------------------------------
\* The column accepts only geometries of its declared type; the id sequence
\* advances whenever an INSERT is attempted.
app_crud_create_polygon(polygons, seq, polygon) ==
    LET s == shape(polygon.area) IN
    IF ~s.ok
    THEN [raised |-> 422, detail |-> "Invalid GeoJSON for Polygon",
          table |-> polygons, seq |-> seq, row |-> NoRow, wrote |-> FALSE]
    ELSE LET db_polygon == [id |-> seq, name |-> polygon.name,
                         description |-> polygon.description, area |-> s.geom] IN
         IF s.geom.gtype # "Polygon"
         THEN [raised |-> 500, detail |-> "Internal Server Error",
               table |-> polygons, seq |-> seq + 1, row |-> NoRow, wrote |-> TRUE]
         ELSE [raised |-> 0, detail |-> "", table |-> polygons \cup {db_polygon},
               seq |-> seq + 1, row |-> db_polygon, wrote |-> TRUE]

get_polygon(polygons, polygon_id) ==
    IF \E r \in polygons : r.id = polygon_id
    THEN CHOOSE r \in polygons : r.id = polygon_id
    ELSE NoRow

\* db.query(...).offset(skip).limit(limit).all(), for one row order o.
app_crud_get_polygons(o, skip, limit) ==
    LET stop == IF skip + limit < Len(o) THEN skip + limit ELSE Len(o) IN
    SubSeq(o, skip + 1, stop)

\* name and description are assigned to the loaded row before the geometry
\* is built; rollback discards the assignments.
app_crud_update_polygon(polygons, polygon_id, polygon) ==
    LET db_polygon == get_polygon(polygons, polygon_id) IN
    IF db_polygon = NoRow
    THEN [raised |-> 0, detail |-> "", table |-> polygons, row |-> NoRow, wrote |-> FALSE]
    ELSE LET pending == [db_polygon EXCEPT !.name = polygon.name,
                                        !.description = polygon.description]
             s == shape(polygon.area) IN
         IF ~s.ok
         THEN [raised |-> 422, detail |-> "Invalid GeoJSON for Polygon",
               table |-> polygons, row |-> NoRow, wrote |-> FALSE]
         ELSE IF s.geom.gtype # "Polygon"
         THEN [raised |-> 422, detail |-> "Invalid GeoJSON for Polygon",
               table |-> polygons, row |-> NoRow, wrote |-> TRUE]
         ELSE LET updated == [pending EXCEPT !.area = s.geom] IN
              [raised |-> 0, detail |-> "", table |-> (polygons \ {db_polygon}) \cup {updated},
               row |-> updated, wrote |-> TRUE]

app_crud_delete_polygon(polygons, polygon_id) ==
    LET db_polygon == get_polygon(polygons, polygon_id) IN
    IF db_polygon = NoRow
    THEN [table |-> polygons, row |-> NoRow, wrote |-> FALSE]
    ELSE [table |-> polygons \ {db_polygon}, row |-> db_polygon, wrote |-> TRUE]

\* polygon_to_schema: the PolygonOut model, whose validator checks the encoded
\* geometry again.
polygon_to_schema(db_polygon) ==
    LET geojson == tuple_to_list(mapping(db_polygon.area)) IN
    [valid |-> validate_polygon(geojson), id |-> db_polygon.id, name |-> db_polygon.name,
     description |-> db_polygon.description, area |-> geojson]

\* The JSON body FastAPI writes for a PolygonOut.
PolygonOutJSON(out) ==
    [id |-> out.id, name |-> out.name, description |-> out.description,
     area |-> ToWire(out.area)]

\* ------------------------------------------------------------------------
\* polygons table: graphql_app.crud.  raised is 0 or 500 (the exception reaches
\* the GraphQL executor); row NoRow stands for None.
\* ------------------------------------------------------------------------
gql_crud_create_polygon(polygons, seq, name, description, area) ==
    LET s == shape(area) IN
    IF ~s.ok
    THEN [raised |-> 0, table |-> polygons, seq |-> seq, row |-> NoRow, wrote |-> FALSE]
    ELSE LET db_polygon == [id |-> seq, name |-> name,
                         description |-> description, area |-> s.geom] IN
         IF s.geom.gtype # "Polygon"
         THEN [raised |-> 500, table |-> polygons, seq |-> seq + 1, row |-> NoRow,
               wrote |-> TRUE]
         ELSE [raised |-> 0, table |-> polygons \cup {db_polygon}, seq |-> seq + 1,
               row |-> db_polygon, wrote |-> TRUE]

gql_crud_update_polygon(polygons, polygon_id, name, description, area) ==
    LET db_polygon == get_polygon(polygons, polygon_id) IN
    IF db_polygon = NoRow
    THEN [table |-> polygons, row |-> NoRow, wrote |-> FALSE]
    ELSE LET pending == [db_polygon EXCEPT !.name = name, !.description = description]
             s == shape(area) IN
         IF ~s.ok
         THEN [table |-> polygons, row |-> NoRow, wrote |-> FALSE]
         ELSE IF s.geom.gtype # "Polygon"
         THEN [table |-> polygons, row |-> NoRow, wrote |-> TRUE]
         ELSE LET updated == [pending EXCEPT !.area = s.geom] IN
              [table |-> (polygons \ {db_polygon}) \cup {updated}, row |-> updated,
               wrote |-> TRUE]

gql_crud_delete_polygon(polygons, polygon_id) ==
    LET db_polygon == get_polygon(polygons, polygon_id) IN
    IF db_polygon = NoRow
    THEN [table |-> polygons, ret |-> FALSE, wrote |-> FALSE]
    ELSE [table |-> polygons \ {db_polygon}, ret |-> TRUE, wrote |-> TRUE]

\* polygon_to_dict, then the JSON scalar's json.dumps.
polygon_to_dict(db_polygon) ==
    [id |-> db_polygon.id, name |-> db_polygon.name, description |-> db_polygon.description,
     area |-> tuple_to_list(mapping(db_polygon.area))]

PolygonGraphJSON(d) ==
    [id |-> d.id, name |-> d.name, description |-> d.description, area |-> ToWire(d.area)]

\* ------------------------------------------------------------------------
\* Spatial queries.  raised: 0, 422 (HTTPException) or 500 (database error).
\* ------------------------------------------------------------------------
\* points_within_polygon with the operands of ST_Within exchanged.
app_crud_points_within_polygon_swapped(points, polygon_geojson) ==
    LET s == shape(polygon_geojson) IN
    IF ~s.ok
    THEN [raised |-> 422, detail |-> "Invalid GeoJSON for Polygon", rows |-> {}]
    ELSE [raised |-> 0, detail |-> "",
          rows |-> {r \in points : ST_Within(s.geom, r.location)}]

app_crud_points_within_polygon(points, polygon_geojson) ==
    LET s == shape(polygon_geojson) IN
    IF ~s.ok
    THEN [raised |-> 422, detail |-> "Invalid GeoJSON for Polygon", rows |-> {}]
    ELSE [raised |-> 0, detail |-> "",
          rows |-> {r \in points : ST_Within(r.location, s.geom)}]

app_crud_polygons_containing_point(polygons, point_geojson) ==
    LET s == shape(point_geojson) IN
    IF ~s.ok
    THEN [raised |-> 422, detail |-> "Invalid GeoJSON for Point", rows |-> {}]
    ELSE [raised |-> 0, detail |-> "",
          rows |-> {r \in polygons : ST_Contains(r.area, s.geom)}]

app_crud_points_nearby(points, point_geojson, radius) ==
    LET s == shape(point_geojson) IN
    IF ~s.ok
    THEN [raised |-> 422, detail |-> "Invalid GeoJSON for Point", rows |-> {}]
    ELSE IF radius < 0
    THEN [raised |-> 500, detail |-> "Internal Server Error", rows |-> {}]
    ELSE [raised |-> 0, detail |-> "",
          rows |-> {r \in points : ST_DWithin(r.location, s.geom, radius)}]

gql_crud_points_within_polygon(points, polygon_geojson) ==
    LET s == shape(polygon_geojson) IN
    IF ~s.ok
    THEN [raised |-> 0, rows |-> {}]
    ELSE [raised |-> 0, rows |-> {r \in points : ST_Within(r.location, s.geom)}]

gql_crud_polygons_containing_point(polygons, point_geojson) ==
    LET s == shape(point_geojson) IN
    IF ~s.ok
    THEN [raised |-> 0, rows |-> {}]
    ELSE [raised |-> 0, rows |-> {r \in polygons : ST_Contains(r.area, s.geom)}]

gql_crud_points_nearby(points, point_geojson, radius) ==
    LET s == shape(point_geojson) IN
    IF ~s.ok
    THEN [raised |-> 0, rows |-> {}]
    ELSE IF radius < 0
    THEN [raised |-> 500, rows |-> {}]
    ELSE [raised |-> 0, rows |-> {r \in points : ST_DWithin(r.location, s.geom, radius)}]

\* ------------------------------------------------------------------------
\* Inputs
\* ------------------------------------------------------------------------
Usernames == {"alice", "bob"}
Passwords == {"pw1", "pw2"}

RectR == <<<<0, 0>>, <<2, 0>>, <<2, 2>>, <<0, 2>>, <<0, 0>>>>
RectS == <<<<2, 0>>, <<4, 0>>, <<4, 2>>, <<2, 2>>, <<2, 0>>>>

\* Geometries that are not accepted: coordinates that are not an array, a
\* position with one ordinate, a ring of two positions.
NonArrayPoint == GeoJSON("Point", JStr)
OneOrdinatePoint == GeoJSON("Point", JList(<<JNum(1)>>))
NonArrayPolygon == GeoJSON("Polygon", JStr)
ShortRingPolygon == GeoJSON("Polygon", JList(<<JRing(<<<<0, 0>>, <<1, 1>>>>)>>))

ValidPointPayloads ==
    { [name |-> "A", description |-> "x", location |-> PointJSON(<<1, 1>>)],
      [name |-> "B", description |-> NoneVal, location |-> PointJSON(<<3, 1>>)] }
MalformedPointPayloads ==
    { [name |-> "Z", description |-> "z", location |-> g] :
        g \in {PolygonJSON(<<RectR>>), NonArrayPoint, OneOrdinatePoint} }
PointPayloads == ValidPointPayloads \cup MalformedPointPayloads

ValidPolygonPayloads ==
    { [name |-> "R", description |-> "r", area |-> PolygonJSON(<<RectR>>)],
      [name |-> "S", description |-> NoneVal, area |-> PolygonJSON(<<RectS>>)] }
MalformedPolygonPayloads ==
    { [name |-> "Z", description |-> "z", area |-> g] :
        g \in {PointJSON(<<1, 1>>), NonArrayPolygon, ShortRingPolygon} }
PolygonPayloads == ValidPolygonPayloads \cup MalformedPolygonPayloads

\* The GraphQL mutations declare description as a non-null String.
GraphPointPayloads == {p \in PointPayloads : p.description # NoneVal}
GraphPolygonPayloads == {p \in PolygonPayloads : p.description # NoneVal}

QueryPolygons == {PolygonJSON(<<RectR>>), PolygonJSON(<<RectS>>), ShortRingPolygon}
QueryPoints == {PointJSON(<<1, 1>>), PointJSON(<<3, 1>>), OneOrdinatePoint}
Radii == {-1, 0, 2}
Pages == {<<0, 100>>, <<1, 1>>}

PointIds == 1..MaxPoints
PolygonIds == 1..MaxPolygons

\* ------------------------------------------------------------------------
\* State
\* ------------------------------------------------------------------------
VARIABLES
    users,            \* rows of table users
    points,           \* rows of table points
    polygons,         \* rows of table polygons
    users_id_seq,     \* next value of the id sequence of users
    points_id_seq,    \* next value of the id sequence of points
    polygons_id_seq,  \* next value of the id sequence of polygons
    now,              \* datetime.utcnow(), in minutes
    issued,           \* the tokens handed out by login
    last,             \* what the client saw of the last response
    sessions          \* the requests in progress, one database session each

vars == <<users, points, polygons, users_id_seq, points_id_seq, polygons_id_seq,
          now, issued, last, sessions>>

\* Two requests can be in progress at a time, each with its own Session
\* (get_db).  A session records the operation and its arguments, where the
\* handler stands (pc), the row it loaded (obj), whether its commit met a
\* failure of the database (fault) and the response once it is done.
Workers == {"w1", "w2"}
NoResponse == [status |-> 0, detail |-> "", body |-> NoRow]
IdleSession ==
    [op |-> "idle", pc |-> "idle", id |-> 0, args |-> NoRow, obj |-> NoRow,
     fault |-> "none", resp |-> NoResponse]

\* The database, the clock and the issued tokens as one value; a request
\* handler maps it to the value afterwards and a response.
DB ==
    [users |-> users, users_id_seq |-> users_id_seq,
     points |-> points, points_id_seq |-> points_id_seq,
     polygons |-> polygons, polygons_id_seq |-> polygons_id_seq,
     now |-> now, issued |-> issued]

\* The rows of a table in one of the orders the database may return them
\* (no query has an ORDER BY).
row_orders(rows) ==
    {o \in [1..Cardinality(rows) -> rows] : \A i, j \in DOMAIN o : i # j => o[i] # o[j]}

\* status: the HTTP status.  result: "ok" or "error" on the REST surface; on
\* the GraphQL surface the value of the field: "value", "list", "null",
\* "true", "false", or "error" when the resolver raised.  items: the records
\* of the body, as a set.  touched: the tables the request sent a statement to.
\* written: the tables it sent an INSERT, UPDATE or DELETE to.
Response(surface, status, detail, result, items, token, touched, written) ==
    [surface |-> surface, status |-> status, detail |-> detail, result |-> result,
     items |-> items, token |-> token, touched |-> touched, written |-> written]

HttpError(status, detail, touched, written) ==
    Response("rest", status, detail, "error", {}, NoToken, touched, written)
HttpOk(items, touched, written) ==
    Response("rest", 200, "", "ok", items, NoToken, touched, written)
GraphData(result, items, touched, written) ==
    Response("graphql", 200, "", result, items, NoToken, touched, written)

Table(name, flag) == IF flag THEN {name} ELSE {}

Handled(db, resp) == [db |-> db, resp |-> resp]

Observed(resp) == [surface |-> resp.surface, status |-> resp.status, result |-> resp.result]

\* A request is served: the database takes the handler's value and the
\* client sees the response.  The id sequences and the number of issued
\* tokens are capped.
Serve(h) ==
    /\ h.db.users_id_seq <= MaxUsers + 1
    /\ h.db.points_id_seq <= MaxPoints + 1
    /\ h.db.polygons_id_seq <= MaxPolygons + 1
    /\ Cardinality(h.db.issued) <= MaxIssued
    /\ users' = h.db.users
    /\ users_id_seq' = h.db.users_id_seq
    /\ points' = h.db.points
    /\ points_id_seq' = h.db.points_id_seq
    /\ polygons' = h.db.polygons
    /\ polygons_id_seq' = h.db.polygons_id_seq
    /\ issued' = h.db.issued
    /\ last' = Observed(h.resp)
    /\ UNCHANGED <<now, sessions>>

Init ==
    /\ users = {}
    /\ points = {}
    /\ polygons = {}
    /\ users_id_seq = 1
    /\ points_id_seq = 1
    /\ polygons_id_seq = 1
    /\ now = 0
    /\ issued = {}
    /\ last = [surface |-> "none", status |-> 0, result |-> "none"]
    /\ sessions = [w \in Workers |-> IdleSession]

\* ------------------------------------------------------------------------
\* Auth endpoints
\* ------------------------------------------------------------------------
\* POST /register
app_register(db, username, password) ==
    LET r == create_user(db.users, db.users_id_seq, username, password)
        db2 == [db EXCEPT !.users = r.users, !.users_id_seq = r.seq] IN
    IF ~r.ok
    THEN Handled(db2, HttpError(400, "Username already registered", {"users"}, {"users"}))
    ELSE Handled(db2, HttpOk({[id |-> r.row.id, username |-> r.row.username]},
                             {"users"}, {"users"}))

\* mutation register
gql_register(db, username, password) ==
    LET r == create_user(db.users, db.users_id_seq, username, password)
        db2 == [db EXCEPT !.users = r.users, !.users_id_seq = r.seq] IN
    Handled(db2, GraphData(IF r.row # NoRow THEN "true" ELSE "false", {},
                           {"users"}, {"users"}))

\* POST /token
app_login(db, username, password) ==
    LET user == authenticate_user(db.users, username, password)
        access_token == create_access_token(user.username, db.now) IN
    IF user = NoRow
    THEN Handled(db, HttpError(400, "Incorrect username or password", {"users"}, {}))
    ELSE Handled([db EXCEPT !.issued = @ \cup {access_token}],
                 Response("rest", 200, "", "ok", {}, access_token, {"users"}, {}))

\* mutation login
gql_login(db, username, password) ==
    LET user == authenticate_user(db.users, username, password)
        access_token == create_access_token(user.username, db.now) IN
    IF user = NoRow
    THEN Handled(db, GraphData("null", {}, {"users"}, {}))
    ELSE Handled([db EXCEPT !.issued = @ \cup {access_token}],
                 Response("graphql", 200, "", "value", {}, access_token, {"users"}, {}))

\* The clock advances by half a token lifetime.
TickMinutes == ACCESS_TOKEN_EXPIRE_MINUTES \div 2
Tick ==
    /\ now < MaxTicks * TickMinutes
    /\ now' = now + TickMinutes
    /\ UNCHANGED <<users, users_id_seq, issued, points, points_id_seq,
                   polygons, polygons_id_seq, last, sessions>>

\* ------------------------------------------------------------------------
\* Point endpoints of the REST surface (app.main).  The dependency
\* get_current_user is resolved before the body is validated.
\* ------------------------------------------------------------------------
\* The response for a row the crud call returned.
app_point_response(db_point, touched, written) ==
    LET out == point_to_schema(db_point) IN
    IF ~out.valid
    THEN HttpError(500, "Internal Server Error", touched, written)
    ELSE HttpOk({PointOutJSON(out)}, touched, written)

\* POST /points/
app_create_point(db, token, point) ==
    LET auth == app_get_current_user(token, db.users, db.now) IN
    IF auth.status # 0
    THEN Handled(db, HttpError(auth.status, auth.detail, auth.touched, {}))
    ELSE IF ~validate_point(point.location)
    THEN Handled(db, HttpError(422, "value_error", auth.touched, {}))
    ELSE LET r == app_crud_create_point(db.points, db.points_id_seq, point)
             touched == auth.touched \cup Table("points", r.wrote)
             written == Table("points", r.wrote) IN
         Handled([db EXCEPT !.points = r.table, !.points_id_seq = r.seq],
                 IF r.raised # 0
                 THEN HttpError(r.raised, r.detail, touched, written)
                 ELSE app_point_response(r.row, touched, written))

\* GET /points/ ; o is the order in which the database returns the rows.
app_list_points(db, token, skip, limit, o) ==
    LET auth == app_get_current_user(token, db.users, db.now) IN
    IF auth.status # 0
    THEN Handled(db, HttpError(auth.status, auth.detail, auth.touched, {}))
    ELSE IF skip < 0 \/ limit < 0
    THEN \* the database refuses a negative OFFSET or LIMIT; nothing catches it
         Handled(db, HttpError(500, "Internal Server Error",
                               auth.touched \cup {"points"}, {}))
    ELSE LET rows == app_crud_get_points(o, skip, limit)
             outs == [i \in DOMAIN rows |-> point_to_schema(rows[i])]
             touched == auth.touched \cup {"points"} IN
         Handled(db, IF \E i \in DOMAIN outs : ~outs[i].valid
                     THEN HttpError(500, "Internal Server Error", touched, {})
                     ELSE HttpOk({PointOutJSON(outs[i]) : i \in DOMAIN outs},
                                 touched, {}))

\* GET /points/{point_id}
app_get_point(db, token, point_id) ==
    LET auth == app_get_current_user(token, db.users, db.now)
        db_point == get_point(db.points, point_id)
        touched == auth.touched \cup {"points"} IN
    IF auth.status # 0
    THEN Handled(db, HttpError(auth.status, auth.detail, auth.touched, {}))
    ELSE IF db_point = NoRow
    THEN Handled(db, HttpError(404, "Point not found", touched, {}))
    ELSE Handled(db, app_point_response(db_point, touched, {}))

\* PUT /points/{point_id}
app_update_point(db, token, point_id, point) ==
    LET auth == app_get_current_user(token, db.users, db.now) IN
    IF auth.status # 0
    THEN Handled(db, HttpError(auth.status, auth.detail, auth.touched, {}))
    ELSE IF ~validate_point(point.location)
    THEN Handled(db, HttpError(422, "value_error", auth.touched, {}))
    ELSE LET r == app_crud_update_point(db.points, point_id, point)
             touched == auth.touched \cup {"points"}
             written == Table("points", r.wrote) IN
         Handled([db EXCEPT !.points = r.table],
                 IF r.raised # 0
                 THEN HttpError(r.raised, r.detail, touched, written)
                 ELSE IF r.row = NoRow
                 THEN HttpError(404, "Point not found", touched, written)
                 ELSE app_point_response(r.row, touched, written))

\* DELETE /points/{point_id}
app_delete_point(db, token, point_id) ==
    LET auth == app_get_current_user(token, db.users, db.now) IN
    IF auth.status # 0
    THEN Handled(db, HttpError(auth.status, auth.detail, auth.touched, {}))
    ELSE LET r == app_crud_delete_point(db.points, point_id)
             touched == auth.touched \cup {"points"}
             written == Table("points", r.wrote) IN
         Handled([db EXCEPT !.points = r.table],
                 IF r.row = NoRow
                 THEN HttpError(404, "Point not found", touched, written)
                 ELSE app_point_response(r.row, touched, written))

\* ------------------------------------------------------------------------
\* Point fields of the GraphQL surface (graphql_app.schema).  token is the
\* Authorization header of the request; no resolver looks at it.
\* ------------------------------------------------------------------------
\* Point(**point_to_dict(p)) if p else None
gql_point_value(p, touched, written) ==
    IF p # NoRow
    THEN GraphData("value", {PointGraphJSON(point_to_dict(p))}, touched, written)
    ELSE GraphData("null", {}, touched, written)

\* query points
gql_points(db, token) ==
    Handled(db, GraphData("list", {PointGraphJSON(point_to_dict(p)) : p \in db.points},
                          {"points"}, {}))

\* query point(id)
gql_point(db, token, id) ==
    Handled(db, gql_point_value(get_point(db.points, id), {"points"}, {}))

\* mutation createPoint
gql_create_point(db, token, point) ==
    LET r == gql_crud_create_point(db.points, db.points_id_seq, point.name,
                                  point.description, point.location)
        touched == Table("points", r.wrote) IN
    Handled([db EXCEPT !.points = r.table, !.points_id_seq = r.seq],
            IF r.raised # 0
            THEN GraphData("error", {}, touched, touched)
            ELSE gql_point_value(r.row, touched, touched))

\* mutation updatePoint
gql_update_point(db, token, id, point) ==
    LET r == gql_crud_update_point(db.points, id, point.name, point.description,
                                  point.location) IN
    Handled([db EXCEPT !.points = r.table],
            gql_point_value(r.row, {"points"}, Table("points", r.wrote)))

\* mutation deletePoint
gql_delete_point(db, token, id) ==
    LET r == gql_crud_delete_point(db.points, id) IN
    Handled([db EXCEPT !.points = r.table],
            GraphData(IF r.ret THEN "true" ELSE "false", {}, {"points"},
                      Table("points", r.wrote)))

\* ------------------------------------------------------------------------
\* Polygon endpoints of the REST surface (app.main).  The dependency
\* get_current_user is resolved before the body is validated.
\* ------------------------------------------------------------------------
\* The response for a row the crud call returned.
app_polygon_response(db_polygon, touched, written) ==
    LET out == polygon_to_schema(db_polygon) IN
    IF ~out.valid
    THEN HttpError(500, "Internal Server Error", touched, written)
    ELSE HttpOk({PolygonOutJSON(out)}, touched, written)

\* POST /polygons/
app_create_polygon(db, token, polygon) ==
    LET auth == app_get_current_user(token, db.users, db.now) IN
    IF auth.status # 0
    THEN Handled(db, HttpError(auth.status, auth.detail, auth.touched, {}))
    ELSE IF ~validate_polygon(polygon.area)
    THEN Handled(db, HttpError(422, "value_error", auth.touched, {}))
    ELSE LET r == app_crud_create_polygon(db.polygons, db.polygons_id_seq, polygon)
             touched == auth.touched \cup Table("polygons", r.wrote)
             written == Table("polygons", r.wrote) IN
         Handled([db EXCEPT !.polygons = r.table, !.polygons_id_seq = r.seq],
                 IF r.raised # 0
                 THEN HttpError(r.raised, r.detail, touched, written)
                 ELSE app_polygon_response(r.row, touched, written))

\* GET /polygons/ ; o is the order in which the database returns the rows.
app_list_polygons(db, token, skip, limit, o) ==
    LET auth == app_get_current_user(token, db.users, db.now) IN
    IF auth.status # 0
    THEN Handled(db, HttpError(auth.status, auth.detail, auth.touched, {}))
    ELSE IF skip < 0 \/ limit < 0
    THEN \* the database refuses a negative OFFSET or LIMIT; nothing catches it
         Handled(db, HttpError(500, "Internal Server Error",
                               auth.touched \cup {"polygons"}, {}))
    ELSE LET rows == app_crud_get_polygons(o, skip, limit)
             outs == [i \in DOMAIN rows |-> polygon_to_schema(rows[i])]
             touched == auth.touched \cup {"polygons"} IN
         Handled(db, IF \E i \in DOMAIN outs : ~outs[i].valid
                     THEN HttpError(500, "Internal Server Error", touched, {})
                     ELSE HttpOk({PolygonOutJSON(outs[i]) : i \in DOMAIN outs},
                                 touched, {}))

\* GET /polygons/{polygon_id}
app_get_polygon(db, token, polygon_id) ==
    LET auth == app_get_current_user(token, db.users, db.now)
        db_polygon == get_polygon(db.polygons, polygon_id)
        touched == auth.touched \cup {"polygons"} IN
    IF auth.status # 0
    THEN Handled(db, HttpError(auth.status, auth.detail, auth.touched, {}))
    ELSE IF db_polygon = NoRow
    THEN Handled(db, HttpError(404, "Polygon not found", touched, {}))
    ELSE Handled(db, app_polygon_response(db_polygon, touched, {}))

\* PUT /polygons/{polygon_id}
app_update_polygon(db, token, polygon_id, polygon) ==
    LET auth == app_get_current_user(token, db.users, db.now) IN
    IF auth.status # 0
    THEN Handled(db, HttpError(auth.status, auth.detail, auth.touched, {}))
    ELSE IF ~validate_polygon(polygon.area)
    THEN Handled(db, HttpError(422, "value_error", auth.touched, {}))
    ELSE LET r == app_crud_update_polygon(db.polygons, polygon_id, polygon)
             touched == auth.touched \cup {"polygons"}
             written == Table("polygons", r.wrote) IN
         Handled([db EXCEPT !.polygons = r.table],
                 IF r.raised # 0
                 THEN HttpError(r.raised, r.detail, touched, written)
                 ELSE IF r.row = NoRow
                 THEN HttpError(404, "Polygon not found", touched, written)
                 ELSE app_polygon_response(r.row, touched, written))

\* DELETE /polygons/{polygon_id}
app_delete_polygon(db, token, polygon_id) ==
    LET auth == app_get_current_user(token, db.users, db.now) IN
    IF auth.status # 0
    THEN Handled(db, HttpError(auth.status, auth.detail, auth.touched, {}))
    ELSE LET r == app_crud_delete_polygon(db.polygons, polygon_id)
             touched == auth.touched \cup {"polygons"}
             written == Table("polygons", r.wrote) IN
         Handled([db EXCEPT !.polygons = r.table],
                 IF r.row = NoRow
                 THEN HttpError(404, "Polygon not found", touched, written)
                 ELSE app_polygon_response(r.row, touched, written))

\* ------------------------------------------------------------------------
\* Polygon fields of the GraphQL surface (graphql_app.schema).  token is the
\* Authorization header of the request; no resolver looks at it.
\* ------------------------------------------------------------------------
\* Polygon(**polygon_to_dict(p)) if p else None
gql_polygon_value(p, touched, written) ==
    IF p # NoRow
    THEN GraphData("value", {PolygonGraphJSON(polygon_to_dict(p))}, touched, written)
    ELSE GraphData("null", {}, touched, written)

\* query polygons
gql_polygons(db, token) ==
    Handled(db, GraphData("list", {PolygonGraphJSON(polygon_to_dict(p)) : p \in db.polygons},
                          {"polygons"}, {}))

\* query polygon(id)
gql_polygon(db, token, id) ==
    Handled(db, gql_polygon_value(get_polygon(db.polygons, id), {"polygons"}, {}))

\* mutation createPolygon
gql_create_polygon(db, token, polygon) ==
    LET r == gql_crud_create_polygon(db.polygons, db.polygons_id_seq, polygon.name,
                                  polygon.description, polygon.area)
        touched == Table("polygons", r.wrote) IN
    Handled([db EXCEPT !.polygons = r.table, !.polygons_id_seq = r.seq],
            IF r.raised # 0
            THEN GraphData("error", {}, touched, touched)
            ELSE gql_polygon_value(r.row, touched, touched))

\* mutation updatePolygon
gql_update_polygon(db, token, id, polygon) ==
    LET r == gql_crud_update_polygon(db.polygons, id, polygon.name, polygon.description,
                                  polygon.area) IN
    Handled([db EXCEPT !.polygons = r.table],
            gql_polygon_value(r.row, {"polygons"}, Table("polygons", r.wrote)))

\* mutation deletePolygon
gql_delete_polygon(db, token, id) ==
    LET r == gql_crud_delete_polygon(db.polygons, id) IN
    Handled([db EXCEPT !.polygons = r.table],
            GraphData(IF r.ret THEN "true" ELSE "false", {}, {"polygons"},
                      Table("polygons", r.wrote)))

\* ------------------------------------------------------------------------
\* Spatial query endpoints
\* ------------------------------------------------------------------------
\* POST /points/within-polygon/
app_points_within_polygon(db, token, polygon) ==
    LET auth == app_get_current_user(token, db.users, db.now)
        r == app_crud_points_within_polygon(db.points, polygon) IN
    IF auth.status # 0
    THEN Handled(db, HttpError(auth.status, auth.detail, auth.touched, {}))
    ELSE IF r.raised # 0
    THEN Handled(db, HttpError(r.raised, r.detail, auth.touched, {}))
    ELSE Handled(db, HttpOk({PointOutJSON(point_to_schema(p)) : p \in r.rows},
                            auth.touched \cup {"points"}, {}))

\* POST /polygons/containing-point/
app_polygons_containing_point(db, token, point) ==
    LET auth == app_get_current_user(token, db.users, db.now)
        r == app_crud_polygons_containing_point(db.polygons, point) IN
    IF auth.status # 0
    THEN Handled(db, HttpError(auth.status, auth.detail, auth.touched, {}))
    ELSE IF r.raised # 0
    THEN Handled(db, HttpError(r.raised, r.detail, auth.touched, {}))
    ELSE Handled(db, HttpOk({PolygonOutJSON(polygon_to_schema(p)) : p \in r.rows},
                            auth.touched \cup {"polygons"}, {}))

\* POST /points/nearby/
app_points_nearby(db, token, point, radius) ==
    LET auth == app_get_current_user(token, db.users, db.now)
        r == app_crud_points_nearby(db.points, point, radius) IN
    IF auth.status # 0
    THEN Handled(db, HttpError(auth.status, auth.detail, auth.touched, {}))
    ELSE IF r.raised = 422
    THEN Handled(db, HttpError(r.raised, r.detail, auth.touched, {}))
    ELSE IF r.raised # 0
    THEN Handled(db, HttpError(r.raised, r.detail, auth.touched \cup {"points"}, {}))
    ELSE Handled(db, HttpOk({PointOutJSON(point_to_schema(p)) : p \in r.rows},
                            auth.touched \cup {"points"}, {}))

\* query pointsWithinPolygon
gql_points_within_polygon(db, token, polygon) ==
    LET r == gql_crud_points_within_polygon(db.points, polygon) IN
    Handled(db, GraphData("list", {PointGraphJSON(point_to_dict(p)) : p \in r.rows},
                          Table("points", shape(polygon).ok), {}))

\* query polygonsContainingPoint
gql_polygons_containing_point(db, token, point) ==
    LET r == gql_crud_polygons_containing_point(db.polygons, point) IN
    Handled(db, GraphData("list", {PolygonGraphJSON(polygon_to_dict(p)) : p \in r.rows},
                          Table("polygons", shape(point).ok), {}))

\* query pointsNearby
gql_points_nearby(db, token, point, radius) ==
    LET r == gql_crud_points_nearby(db.points, point, radius) IN
    IF r.raised # 0
    THEN Handled(db, GraphData("error", {}, Table("points", shape(point).ok), {}))
    ELSE Handled(db, GraphData("list", {PointGraphJSON(point_to_dict(p)) : p \in r.rows},
                               Table("points", shape(point).ok), {}))

\* ------------------------------------------------------------------------
\* Specifications
\* ------------------------------------------------------------------------
\* Tokens a client may present besides the issued ones: none, one that does
\* not parse, one signed with another key, one without sub, and one whose
\* subject has no user record.
FarExp == (MaxTicks + 1) * ACCESS_TOKEN_EXPIRE_MINUTES
ForgedTokens ==
    {NoToken, MalformedToken, BadSigToken("alice", FarExp), Token(NoneVal, FarExp),
     Token("mallory", FarExp)}

AuthRequests(names, passwords) ==
    \E username \in names, password \in passwords :
        \/ Serve(app_register(DB, username, password))
        \/ Serve(gql_register(DB, username, password))
        \/ Serve(app_login(DB, username, password))
        \/ Serve(gql_login(DB, username, password))

PointRequests(tokens, headers) ==
    \/ \E token \in tokens :
        \/ \E point \in PointPayloads : Serve(app_create_point(DB, token, point))
        \/ \E page \in Pages, o \in row_orders(points) :
              Serve(app_list_points(DB, token, page[1], page[2], o))
        \/ \E id \in PointIds : Serve(app_get_point(DB, token, id))
        \/ \E id \in PointIds, point \in PointPayloads :
              Serve(app_update_point(DB, token, id, point))
        \/ \E id \in PointIds : Serve(app_delete_point(DB, token, id))
        \/ \E polygon \in QueryPolygons :
              Serve(app_points_within_polygon(DB, token, polygon))
        \/ \E point \in QueryPoints, radius \in Radii :
              Serve(app_points_nearby(DB, token, point, radius))
    \/ \E token \in headers :
        \/ \E point \in GraphPointPayloads : Serve(gql_create_point(DB, token, point))
        \/ Serve(gql_points(DB, token))
        \/ \E id \in PointIds : Serve(gql_point(DB, token, id))
        \/ \E id \in PointIds, point \in GraphPointPayloads :
              Serve(gql_update_point(DB, token, id, point))
        \/ \E id \in PointIds : Serve(gql_delete_point(DB, token, id))
        \/ \E polygon \in QueryPolygons :
              Serve(gql_points_within_polygon(DB, token, polygon))
        \/ \E point \in QueryPoints, radius \in Radii :
              Serve(gql_points_nearby(DB, token, point, radius))

PolygonRequests(tokens, headers) ==
    \/ \E token \in tokens :
        \/ \E polygon \in PolygonPayloads : Serve(app_create_polygon(DB, token, polygon))
        \/ \E page \in Pages, o \in row_orders(polygons) :
              Serve(app_list_polygons(DB, token, page[1], page[2], o))
        \/ \E id \in PolygonIds : Serve(app_get_polygon(DB, token, id))
        \/ \E id \in PolygonIds, polygon \in PolygonPayloads :
              Serve(app_update_polygon(DB, token, id, polygon))
        \/ \E id \in PolygonIds : Serve(app_delete_polygon(DB, token, id))
        \/ \E point \in QueryPoints :
              Serve(app_polygons_containing_point(DB, token, point))
    \/ \E token \in headers :
        \/ \E polygon \in GraphPolygonPayloads :
              Serve(gql_create_polygon(DB, token, polygon))
        \/ Serve(gql_polygons(DB, token))
        \/ \E id \in PolygonIds : Serve(gql_polygon(DB, token, id))
        \/ \E id \in PolygonIds, polygon \in GraphPolygonPayloads :
              Serve(gql_update_polygon(DB, token, id, polygon))
        \/ \E id \in PolygonIds : Serve(gql_delete_polygon(DB, token, id))
        \/ \E point \in QueryPoints :
              Serve(gql_polygons_containing_point(DB, token, point))

\* The whole program.
Next ==
    \/ AuthRequests(Usernames, Passwords)
    \/ Tick
    \/ PointRequests(issued \cup ForgedTokens, issued \cup ForgedTokens)
    \/ PolygonRequests(issued \cup ForgedTokens, issued \cup ForgedTokens)

Spec == Init /\ [][Next]_vars

\* Registration, login and the token check, observed through one protected
\* endpoint, while the clock advances.
NextAuth ==
    \/ AuthRequests(Usernames, Passwords)
    \/ Tick
    \/ \E token \in issued \cup ForgedTokens : Serve(app_list_points(DB, token, 0, 100, <<>>))

SpecAuth == Init /\ [][NextAuth]_vars

\* The two surfaces over the points and polygons tables, at one instant,
\* for one registered user who has logged in.
InitData ==
    /\ users = {[id |-> 1, username |-> "alice",
                 hashed_password |-> get_password_hash("pw1")]}
    /\ users_id_seq = 2
    /\ points = {}
    /\ polygons = {}
    /\ points_id_seq = 1
    /\ polygons_id_seq = 1
    /\ now = 0
    /\ issued = {create_access_token("alice", 0)}
    /\ last = [surface |-> "none", status |-> 0, result |-> "none"]
    /\ sessions = [w \in Workers |-> IdleSession]

DataTokens == issued \cup {NoToken, MalformedToken}
DataHeaders == issued \cup {NoToken}

NextData ==
    \/ PointRequests(DataTokens, DataHeaders)
    \/ PolygonRequests(DataTokens, DataHeaders)

SpecData == InitData /\ [][NextData]_vars

\* ------------------------------------------------------------------------
\* Requests of the REST surface in progress at the same time.  A handler is
\* cut at the statements it sends to the database: the SELECT of get_point,
\* the flush and COMMIT of db.commit(), the SELECT of db.refresh().  The
\* database runs at READ COMMITTED: a statement sees what is committed when
\* it starts, and the row lock taken by a flush is held only until the
\* COMMIT that follows it in the same step.
\* ------------------------------------------------------------------------
\* The handler of worker w returns or raises: the client gets the response.
Respond(w, s, status, detail, body) ==
    /\ sessions' = [sessions EXCEPT ![w] =
            [s EXCEPT !.pc = "done",
                      !.resp = [status |-> status, detail |-> detail, body |-> body]]]
    /\ last' = [surface |-> "rest", status |-> status,
                result |-> IF status = 200 THEN "ok" ELSE "error"]

\* The handler of worker w goes on to its next statement.
Proceed(w, s, pc) ==
    /\ sessions' = [sessions EXCEPT ![w] = [s EXCEPT !.pc = pc]]
    /\ UNCHANGED last

\* A failure of the database during db.commit(): none, during the flush
\* (before the statement ran), or during COMMIT.
Faults == {"none", "flush", "commit"}

\* PUT /points/{point_id} up to crud.update_point's get_point.
update_point_read(w, token, point_id, point) ==
    /\ sessions[w].pc = "idle"
    /\ LET auth == app_get_current_user(token, users, now)
           db_point == get_point(points, point_id)
           s == [IdleSession EXCEPT !.op = "update_point", !.id = point_id,
                                    !.args = point] IN
       IF auth.status # 0 THEN Respond(w, s, auth.status, auth.detail, NoRow)
       ELSE IF ~validate_point(point.location)
       THEN Respond(w, s, 422, "value_error", NoRow)
       ELSE IF db_point = NoRow THEN Respond(w, s, 404, "Point not found", NoRow)
       ELSE Proceed(w, [s EXCEPT !.obj = db_point], "loaded")
    /\ UNCHANGED <<users, users_id_seq, points, points_id_seq, polygons,
                   polygons_id_seq, now, issued>>

\* The UPDATE the flush sends for the loaded row obj after the assignments:
\* it sets the columns whose assigned value differs from the loaded one (the
\* geometry element built by from_shape never equals the loaded one) in the
\* row as it is now.
flush_update_point(cur, obj, point, geom) ==
    [cur EXCEPT !.name = IF point.name # obj.name THEN point.name ELSE @,
                !.description = IF point.description # obj.description
                                THEN point.description ELSE @,
                !.location = geom]

\* crud.update_point from the assignments to db.commit().  Every exception
\* (shape, a failure of the database, an UPDATE that matches no row) is
\* caught, rolled back and raised as 422.
update_point_commit(w, fault) ==
    /\ sessions[w].op = "update_point"
    /\ sessions[w].pc = "loaded"
    /\ LET s == sessions[w]
           g == shape(s.args.location)
           cur == get_point(points, s.id) IN
       IF ~g.ok
       THEN /\ fault = "none"
            /\ Respond(w, s, 422, "Invalid GeoJSON for Point", NoRow)
            /\ UNCHANGED points
       ELSE IF fault # "none" \/ cur = NoRow \/ g.geom.gtype # "Point"
       THEN /\ Respond(w, [s EXCEPT !.fault = fault], 422, "Invalid GeoJSON for Point", NoRow)
            /\ UNCHANGED points
       ELSE /\ points' = (points \ {cur}) \cup {flush_update_point(cur, s.obj, s.args, g.geom)}
            /\ Proceed(w, s, "committed")
    /\ UNCHANGED <<users, users_id_seq, points_id_seq, polygons, polygons_id_seq,
                   now, issued>>

\* db.refresh(db_point) in the same try block, then the response.
update_point_refresh(w) ==
    /\ sessions[w].op = "update_point"
    /\ sessions[w].pc = "committed"
    /\ LET s == sessions[w]
           row == get_point(points, s.id) IN
       IF row = NoRow
       THEN Respond(w, s, 422, "Invalid GeoJSON for Point", NoRow)
       ELSE Respond(w, [s EXCEPT !.obj = row], 200, "", row)
    /\ UNCHANGED <<users, users_id_seq, points, points_id_seq, polygons,
                   polygons_id_seq, now, issued>>

\* DELETE /points/{point_id} up to crud.delete_point's get_point.
delete_point_read(w, token, point_id) ==
    /\ sessions[w].pc = "idle"
    /\ LET auth == app_get_current_user(token, users, now)
           db_point == get_point(points, point_id)
           s == [IdleSession EXCEPT !.op = "delete_point", !.id = point_id] IN
       IF auth.status # 0 THEN Respond(w, s, auth.status, auth.detail, NoRow)
       ELSE IF db_point = NoRow THEN Respond(w, s, 404, "Point not found", NoRow)
       ELSE Proceed(w, [s EXCEPT !.obj = db_point], "loaded")
    /\ UNCHANGED <<users, users_id_seq, points, points_id_seq, polygons,
                   polygons_id_seq, now, issued>>

\* db.delete(db_point); db.commit(), then the response from the loaded row.
\* A DELETE that matches no row is not an error.
delete_point_commit(w) ==
    /\ sessions[w].op = "delete_point"
    /\ sessions[w].pc = "loaded"
    /\ points' = {r \in points : r.id # sessions[w].id}
    /\ Respond(w, sessions[w], 200, "", sessions[w].obj)
    /\ UNCHANGED <<users, users_id_seq, points_id_seq, polygons, polygons_id_seq,
                   now, issued>>

\* POST /points/ up to db.commit().  Nothing catches an exception of the
\* commit: the client gets 500 and closing the session rolls back.
create_point_commit(w, token, point, fault) ==
    /\ sessions[w].pc = "idle"
    /\ LET auth == app_get_current_user(token, users, now)
           r == app_crud_create_point(points, points_id_seq, point)
           s == [IdleSession EXCEPT !.op = "create_point", !.args = point] IN
       IF auth.status # 0 \/ ~validate_point(point.location) \/ r.raised # 0
       THEN /\ fault = "none"
            /\ IF auth.status # 0 THEN Respond(w, s, auth.status, auth.detail, NoRow)
               ELSE IF ~validate_point(point.location)
               THEN Respond(w, s, 422, "value_error", NoRow)
               ELSE Respond(w, s, r.raised, r.detail, NoRow)
            /\ points_id_seq' = IF auth.status = 0 /\ validate_point(point.location)
                                THEN r.seq ELSE points_id_seq
            /\ UNCHANGED points
       ELSE IF fault # "none"
       THEN /\ Respond(w, [s EXCEPT !.fault = fault], 500, "Internal Server Error", NoRow)
            /\ points_id_seq' = IF fault = "commit" THEN r.seq ELSE points_id_seq
            /\ UNCHANGED points
       ELSE /\ points' = r.table
            /\ points_id_seq' = r.seq
            /\ Proceed(w, [s EXCEPT !.id = r.row.id, !.obj = r.row], "committed")
    /\ UNCHANGED <<users, users_id_seq, polygons, polygons_id_seq, now, issued>>

\* db.refresh(db_point), then the response.
create_point_refresh(w) ==
    /\ sessions[w].op = "create_point"
    /\ sessions[w].pc = "committed"
    /\ LET s == sessions[w]
           row == get_point(points, s.id) IN
       IF row = NoRow
       THEN Respond(w, s, 500, "Internal Server Error", NoRow)
       ELSE Respond(w, [s EXCEPT !.obj = row], 200, "", row)
    /\ UNCHANGED <<users, users_id_seq, points, points_id_seq, polygons,
                   polygons_id_seq, now, issued>>

\* POST /register up to db.add(db_user): no statement has been sent.
create_user_add(w, username, password) ==
    /\ sessions[w].pc = "idle"
    /\ Proceed(w, [IdleSession EXCEPT !.op = "create_user",
                       !.args = [username |-> username, password |-> password]],
               "added")
    /\ UNCHANGED <<users, users_id_seq, points, points_id_seq, polygons,
                   polygons_id_seq, now, issued>>

\* db.commit(): the INSERT, which the unique index may reject.
create_user_commit(w) ==
    /\ sessions[w].op = "create_user"
    /\ sessions[w].pc = "added"
    /\ LET s == sessions[w]
           r == create_user(users, users_id_seq, s.args.username, s.args.password) IN
       /\ users' = r.users
       /\ users_id_seq' = r.seq
       /\ IF ~r.ok THEN Respond(w, s, 400, "Username already registered", NoRow)
          ELSE Proceed(w, [s EXCEPT !.id = r.row.id, !.obj = r.row], "committed")
    /\ UNCHANGED <<points, points_id_seq, polygons, polygons_id_seq, now, issued>>

\* db.refresh(db_user), then the response.
create_user_refresh(w) ==
    /\ sessions[w].op = "create_user"
    /\ sessions[w].pc = "committed"
    /\ Respond(w, sessions[w], 200, "", sessions[w].obj)
    /\ UNCHANGED <<users, users_id_seq, points, points_id_seq, polygons,
                   polygons_id_seq, now, issued>>

\* One registered user who has logged in and one stored point; each worker
\* serves one request.
InitConc ==
    /\ users = {[id |-> 1, username |-> "alice",
                 hashed_password |-> get_password_hash("pw1")]}
    /\ users_id_seq = 2
    /\ points = {[id |-> 1, name |-> "A", description |-> "x",
                  location |-> PointGeom(<<1, 1>>)]}
    /\ points_id_seq = 2
    /\ polygons = {}
    /\ polygons_id_seq = 1
    /\ now = 0
    /\ issued = {create_access_token("alice", 0)}
    /\ last = [surface |-> "none", status |-> 0, result |-> "none"]
    /\ sessions = [w \in Workers |-> IdleSession]

ConcPointPayloads ==
    ValidPointPayloads
    \cup {[name |-> "Z", description |-> "z", location |-> OneOrdinatePoint]}

NextConc ==
    \E w \in Workers :
        \/ \E token \in issued, id \in PointIds, point \in ConcPointPayloads :
              update_point_read(w, token, id, point)
        \/ \E fault \in Faults : update_point_commit(w, fault)
        \/ update_point_refresh(w)
        \/ \E token \in issued, id \in PointIds : delete_point_read(w, token, id)
        \/ delete_point_commit(w)
        \/ \E token \in issued, point \in ConcPointPayloads, fault \in Faults :
              create_point_commit(w, token, point, fault)
        \/ create_point_refresh(w)
        \/ \E username \in Usernames, password \in Passwords :
              create_user_add(w, username, password)
        \/ create_user_commit(w)
        \/ create_user_refresh(w)

SpecConc == InitConc /\ [][NextConc]_vars

\* ------------------------------------------------------------------------
\* The requests a client can send to the protected operations, as the set
\* of outcomes the handlers give in database db.
\* ------------------------------------------------------------------------
AppPointCalls(db, token) ==
    {app_create_point(db, token, point) : point \in PointPayloads}
    \cup {app_list_points(db, token, page[1], page[2], o) :
            page \in Pages, o \in row_orders(db.points)}
    \cup {app_get_point(db, token, id) : id \in PointIds}
    \cup {app_update_point(db, token, c[1], c[2]) : c \in PointIds \X PointPayloads}
    \cup {app_delete_point(db, token, id) : id \in PointIds}
    \cup {app_points_within_polygon(db, token, polygon) : polygon \in QueryPolygons}
    \cup {app_points_nearby(db, token, c[1], c[2]) : c \in QueryPoints \X Radii}

AppPolygonCalls(db, token) ==
    {app_create_polygon(db, token, polygon) : polygon \in PolygonPayloads}
    \cup {app_list_polygons(db, token, page[1], page[2], o) :
            page \in Pages, o \in row_orders(db.polygons)}
    \cup {app_get_polygon(db, token, id) : id \in PolygonIds}
    \cup {app_update_polygon(db, token, c[1], c[2]) : c \in PolygonIds \X PolygonPayloads}
    \cup {app_delete_polygon(db, token, id) : id \in PolygonIds}
    \cup {app_polygons_containing_point(db, token, point) : point \in QueryPoints}

GqlPointCalls(db, token) ==
    {gql_create_point(db, token, point) : point \in GraphPointPayloads}
    \cup {gql_points(db, token)}
    \cup {gql_point(db, token, id) : id \in PointIds}
    \cup {gql_update_point(db, token, c[1], c[2]) : c \in PointIds \X GraphPointPayloads}
    \cup {gql_delete_point(db, token, id) : id \in PointIds}
    \cup {gql_points_within_polygon(db, token, polygon) : polygon \in QueryPolygons}
    \cup {gql_points_nearby(db, token, c[1], c[2]) : c \in QueryPoints \X Radii}

GqlPolygonCalls(db, token) ==
    {gql_create_polygon(db, token, polygon) : polygon \in GraphPolygonPayloads}
    \cup {gql_polygons(db, token)}
    \cup {gql_polygon(db, token, id) : id \in PolygonIds}
    \cup {gql_update_polygon(db, token, c[1], c[2]) : c \in PolygonIds \X GraphPolygonPayloads}
    \cup {gql_delete_polygon(db, token, id) : id \in PolygonIds}
    \cup {gql_polygons_containing_point(db, token, point) : point \in QueryPoints}

\* A request carries no valid bearer token: no Authorization header, or a
\* token that does not parse, is signed with another key, has expired, has
\* no subject, or names a subject without a user record.
NoValidBearer(token) ==
    \/ ~token.present
    \/ ~token.wf
    \/ token.sig # "good"
    \/ token.exp < now
    \/ token.sub = NoneVal
    \/ \A u \in users : u.username # token.sub

Store == {"points", "polygons"}

\* ------------------------------------------------------------------------
\* C1
\* ------------------------------------------------------------------------
\* C1: on the REST surface every points/polygons CRUD endpoint and every
\* predicate-query endpoint, called with no bearer token or with a token
\* that fails verification, answers 401, sends no statement to the points
\* or polygons table, and leaves the database as it was.
C1_AuthGate ==
    \A token \in DataTokens \cup ForgedTokens :
        NoValidBearer(token) =>
            \A h \in AppPointCalls(DB, token) \cup AppPolygonCalls(DB, token) :
                /\ h.resp.status = 401
                /\ h.resp.touched \cap Store = {}
                /\ h.resp.written = {}
                /\ h.db = DB

\* A request without a valid token was answered 401 while both tables hold
\* records.
C1_Witness ==
    /\ last = [surface |-> "rest", status |-> 401, result |-> "error"]
    /\ points # {}
    /\ polygons # {}

\* ------------------------------------------------------------------------
\* C2
\* ------------------------------------------------------------------------
\* C2: on the GraphQL surface every query and mutation field other than
\* register and login, called without a valid bearer token, accesses no
\* table and changes no stored record.
C2_GraphAuthGate ==
    \A token \in DataHeaders \cup ForgedTokens :
        NoValidBearer(token) =>
            \A h \in GqlPointCalls(DB, token) \cup GqlPolygonCalls(DB, token) :
                /\ h.resp.touched = {}
                /\ h.db = DB

\* ------------------------------------------------------------------------
\* C3
\* ------------------------------------------------------------------------
\* The JSON record a client expects for id i and the fields of payload f.
PointRecord(i, f) ==
    [id |-> i, name |-> f.name, description |-> f.description, location |-> f.location]
PolygonRecord(i, f) ==
    [id |-> i, name |-> f.name, description |-> f.description, area |-> f.area]

\* GET /points/ and GET /polygons/ with the default page, in any row order.
ListedPoints(db, token) ==
    {app_list_points(db, token, 0, 100, o).resp : o \in row_orders(db.points)}
ListedPolygons(db, token) ==
    {app_list_polygons(db, token, 0, 100, o).resp : o \in row_orders(db.polygons)}

C3_Points(token) ==
    /\ \A f \in ValidPointPayloads :
        LET i == points_id_seq
            h == app_create_point(DB, token, f)
            g == app_get_point(h.db, token, i).resp IN
        /\ h.resp.status = 200 /\ h.resp.items = {PointRecord(i, f)}
        /\ g.status = 200 /\ g.items = {PointRecord(i, f)}
        /\ points \subseteq h.db.points
    /\ \A i \in PointIds, f \in ValidPointPayloads :
        LET h == app_update_point(DB, token, i, f)
            g == app_get_point(h.db, token, i).resp IN
        /\ h.resp.status = (IF get_point(points, i) # NoRow THEN 200 ELSE 404)
        /\ h.resp.status = 200 =>
            /\ g.status = 200 /\ g.items = {PointRecord(i, f)}
            /\ \A l \in ListedPoints(h.db, token) :
                 l.status = 200 /\ {r \in l.items : r.id = i} = {PointRecord(i, f)}
            /\ {r \in h.db.points : r.id # i} = {r \in points : r.id # i}
    /\ \A i \in PointIds :
        LET h == app_delete_point(DB, token, i) IN
        /\ h.resp.status = (IF get_point(points, i) # NoRow THEN 200 ELSE 404)
        /\ h.resp.status = 200 =>
            /\ app_get_point(h.db, token, i).resp.status = 404
            /\ h.db.points = {r \in points : r.id # i}

C3_Polygons(token) ==
    /\ \A f \in ValidPolygonPayloads :
        LET i == polygons_id_seq
            h == app_create_polygon(DB, token, f)
            g == app_get_polygon(h.db, token, i).resp IN
        /\ h.resp.status = 200 /\ h.resp.items = {PolygonRecord(i, f)}
        /\ g.status = 200 /\ g.items = {PolygonRecord(i, f)}
        /\ polygons \subseteq h.db.polygons
    /\ \A i \in PolygonIds, f \in ValidPolygonPayloads :
        LET h == app_update_polygon(DB, token, i, f)
            g == app_get_polygon(h.db, token, i).resp IN
        /\ h.resp.status = (IF get_polygon(polygons, i) # NoRow THEN 200 ELSE 404)
        /\ h.resp.status = 200 =>
            /\ g.status = 200 /\ g.items = {PolygonRecord(i, f)}
            /\ \A l \in ListedPolygons(h.db, token) :
                 l.status = 200 /\ {r \in l.items : r.id = i} = {PolygonRecord(i, f)}
            /\ {r \in h.db.polygons : r.id # i} = {r \in polygons : r.id # i}
    /\ \A i \in PolygonIds :
        LET h == app_delete_polygon(DB, token, i) IN
        /\ h.resp.status = (IF get_polygon(polygons, i) # NoRow THEN 200 ELSE 404)
        /\ h.resp.status = 200 =>
            /\ app_get_polygon(h.db, token, i).resp.status = 404
            /\ h.db.polygons = {r \in polygons : r.id # i}

\* An id the sequence has handed out and that is not in the table (its
\* record was deleted) is not in the table after the step either.
C3_Step ==
    /\ \A i \in 1..(MaxPoints + 1) :
        (i < points_id_seq /\ get_point(points, i) = NoRow) => get_point(points', i) = NoRow
    /\ \A i \in 1..(MaxPolygons + 1) :
        (i < polygons_id_seq /\ get_polygon(polygons, i) = NoRow)
            => get_polygon(polygons', i) = NoRow

\* C3: for an authenticated caller and a valid payload, on points and on
\* polygons: create returns a new id i and get(i) then returns the created
\* name, description and geometry; after a successful update(i, f), get(i)
\* and list show exactly the fields f; after a successful delete(i), get(i)
\* answers 404, and no later step of any request brings the id back.
C3_Lifecycle ==
    /\ [](\A token \in issued : C3_Points(token) /\ C3_Polygons(token))
    /\ [][C3_Step]_vars

\* Record 1 of each table was deleted, a second point was created after it,
\* and the last request was answered 404.
C3_Witness ==
    /\ points_id_seq > 2 /\ get_point(points, 1) = NoRow /\ get_point(points, 2) # NoRow
    /\ polygons_id_seq > 1 /\ get_polygon(polygons, 1) = NoRow
    /\ last = [surface |-> "rest", status |-> 404, result |-> "error"]

\* ------------------------------------------------------------------------
\* C4
\* ------------------------------------------------------------------------
UsersNamed(rows, username) == {u \in rows : u.username = username}

\* C4: registering a username that is already registered answers 400 on the
\* REST surface and false on the GraphQL surface and leaves the one record
\* of that username as the first registration wrote it; a username that is
\* not registered gets exactly one record; no two user records ever share a
\* username.
C4_DuplicateRegistration ==
    /\ \A u1, u2 \in users : u1.username = u2.username => u1 = u2
    /\ \A username \in Usernames, password \in Passwords :
        LET h == app_register(DB, username, password)
            g == gql_register(DB, username, password) IN
        IF UsersNamed(users, username) # {}
        THEN /\ h.resp.status = 400 /\ h.db.users = users
             /\ g.resp.result = "false" /\ g.db.users = users
             /\ Cardinality(UsersNamed(h.db.users, username)) = 1
             /\ Cardinality(UsersNamed(g.db.users, username)) = 1
        ELSE /\ h.resp.status = 200 /\ g.resp.result = "true"
             /\ Cardinality(UsersNamed(h.db.users, username)) = 1
             /\ Cardinality(UsersNamed(g.db.users, username)) = 1

\* A registration was refused (it used up an id of the sequence) on the
\* REST surface, and both usernames are registered.
C4_Witness ==
    /\ last = [surface |-> "rest", status |-> 400, result |-> "error"]
    /\ Cardinality(users) = Cardinality(Usernames)
    /\ users_id_seq > Cardinality(users) + 1
    /\ issued = {}

\* ------------------------------------------------------------------------
\* C5
\* ------------------------------------------------------------------------
UnknownPointIds == {i \in 1..(MaxPoints + 2) : \A r \in points : r.id # i}
UnknownPolygonIds == {i \in 1..(MaxPolygons + 2) : \A r \in polygons : r.id # i}

\* The repository functions return None (False for the GraphQL delete)
\* without raising, whatever the payload.
C5_Repository ==
    /\ \A i \in UnknownPointIds :
        /\ get_point(points, i) = NoRow
        /\ \A f \in PointPayloads :
            /\ app_crud_update_point(points, i, f)
                 = [raised |-> 0, detail |-> "", table |-> points, row |-> NoRow,
                    wrote |-> FALSE]
            /\ LET r == gql_crud_update_point(points, i, f.name, f.description, f.location) IN
               r.row = NoRow /\ r.table = points /\ ~r.wrote
        /\ app_crud_delete_point(points, i)
             = [table |-> points, row |-> NoRow, wrote |-> FALSE]
        /\ gql_crud_delete_point(points, i)
             = [table |-> points, ret |-> FALSE, wrote |-> FALSE]
    /\ \A i \in UnknownPolygonIds :
        /\ get_polygon(polygons, i) = NoRow
        /\ \A f \in PolygonPayloads :
            /\ app_crud_update_polygon(polygons, i, f)
                 = [raised |-> 0, detail |-> "", table |-> polygons, row |-> NoRow,
                    wrote |-> FALSE]
            /\ LET r == gql_crud_update_polygon(polygons, i, f.name, f.description, f.area) IN
               r.row = NoRow /\ r.table = polygons /\ ~r.wrote
        /\ app_crud_delete_polygon(polygons, i)
             = [table |-> polygons, row |-> NoRow, wrote |-> FALSE]
        /\ gql_crud_delete_polygon(polygons, i)
             = [table |-> polygons, ret |-> FALSE, wrote |-> FALSE]

\* The REST endpoints answer 404; an update is one whose body the request
\* schema accepts (otherwise FastAPI answers 422 before the handler runs).
C5_Rest(token) ==
    /\ \A i \in UnknownPointIds :
        \A h \in {app_get_point(DB, token, i), app_delete_point(DB, token, i)}
                 \cup {app_update_point(DB, token, i, f) :
                         f \in {f \in PointPayloads : validate_point(f.location)}} :
            h.resp.status = 404 /\ h.resp.written = {} /\ h.db = DB
    /\ \A i \in UnknownPolygonIds :
        \A h \in {app_get_polygon(DB, token, i), app_delete_polygon(DB, token, i)}
                 \cup {app_update_polygon(DB, token, i, f) :
                         f \in {f \in PolygonPayloads : validate_polygon(f.area)}} :
            h.resp.status = 404 /\ h.resp.written = {} /\ h.db = DB

\* The GraphQL fields answer null, and false for the deletes.
C5_Graph(token) ==
    /\ \A i \in UnknownPointIds :
        /\ \A h \in {gql_point(DB, token, i)}
                    \cup {gql_update_point(DB, token, i, f) : f \in GraphPointPayloads} :
            h.resp.result = "null" /\ h.resp.written = {} /\ h.db = DB
        /\ LET h == gql_delete_point(DB, token, i) IN
           h.resp.result = "false" /\ h.resp.written = {} /\ h.db = DB
    /\ \A i \in UnknownPolygonIds :
        /\ \A h \in {gql_polygon(DB, token, i)}
                    \cup {gql_update_polygon(DB, token, i, f) : f \in GraphPolygonPayloads} :
            h.resp.result = "null" /\ h.resp.written = {} /\ h.db = DB
        /\ LET h == gql_delete_polygon(DB, token, i) IN
           h.resp.result = "false" /\ h.resp.written = {} /\ h.db = DB

C6_Rejected422(h) ==
    h.resp.status = 422 /\ h.resp.written = {} /\ h.db = DB

\* The GraphQL form of the failure: the field is null, nothing was written.
C6_RejectedNull(h) ==
    h.resp.result = "null" /\ h.resp.written = {} /\ h.db = DB

C6_Rest(token) ==
    /\ \A f \in MalformedPointPayloads :
        /\ C6_Rejected422(app_create_point(DB, token, f))
        /\ \A r \in points : C6_Rejected422(app_update_point(DB, token, r.id, f))
    /\ \A f \in MalformedPolygonPayloads :
        /\ C6_Rejected422(app_create_polygon(DB, token, f))
        /\ \A r \in polygons : C6_Rejected422(app_update_polygon(DB, token, r.id, f))

C6_Graph(token) ==
    /\ \A f \in MalformedPointPayloads :
        /\ C6_RejectedNull(gql_create_point(DB, token, f))
        /\ \A r \in points : C6_RejectedNull(gql_update_point(DB, token, r.id, f))
    /\ \A f \in MalformedPolygonPayloads :
        /\ C6_RejectedNull(gql_create_polygon(DB, token, f))
        /\ \A r \in polygons : C6_RejectedNull(gql_update_polygon(DB, token, r.id, f))

\* C6: create and update with a malformed geometry (wrong type for the
\* field, coordinates that are not an array, a structure the geometry
\* constructor rejects) fail with InvalidGeometry (422 on the REST surface,
\* null on the GraphQL surface) before any write is attempted: no record is
\* added and the record to update keeps its name, description and geometry.
C6_InvalidGeometry ==
    /\ \A token \in issued : C6_Rest(token)
    /\ \A token \in DataHeaders : C6_Graph(token)

\* The part of C6 that is about the REST surface.
C6_RestOnly == \A token \in issued : C6_Rest(token)

\* ------------------------------------------------------------------------
\* C7
\* ------------------------------------------------------------------------
\* A presented token that is malformed, wrongly signed, without a subject,
\* or whose subject has no user record.
C7_Unverifiable(token) ==
    /\ token.present
    /\ \/ ~token.wf
       \/ token.sig # "good"
       \/ token.sub = NoneVal
       \/ \A u \in users : u.username # token.sub

\* The answer of a protected endpoint to an unauthenticated request.
C7_Answers401(token) ==
    \A o \in row_orders(points) :
        LET h == app_list_points(DB, token, 0, 100, o) IN
        /\ h.resp.status = 401
        /\ h.resp.detail = "Could not validate credentials"
        /\ h.db = DB

\* The dependency returns the user the token names.
C7_Authenticated(token) ==
    LET auth == app_get_current_user(token, users, now) IN
    /\ auth.status = 0
    /\ auth.user.username = token.sub
    /\ \A o \in row_orders(points) : app_list_points(DB, token, 0, 100, o).resp.status = 200

\* A login step hands out a token for a registered subject that expires
\* ACCESS_TOKEN_EXPIRE_MINUTES after the time of the step.
C7_Issue ==
    \A token \in issued' \ issued :
        /\ token.sig = "good" /\ token.wf /\ token.present
        /\ token.exp = now + ACCESS_TOKEN_EXPIRE_MINUTES
        /\ \E u \in users : u.username = token.sub

\* C7 as claimed: a token issued at t for subject s is accepted as s only
\* while its signature is valid and the current time is before t + 60
\* minutes; an expired, malformed, wrongly signed, subject-less or
\* unknown-subject token is answered 401 with one and the same detail.
C7_TokenLifetime ==
    /\ [][C7_Issue]_vars
    /\ [](\A token \in issued \cup ForgedTokens :
            /\ app_get_current_user(token, users, now).status = 0
                 => (token.sig = "good" /\ now < token.exp /\ C7_Authenticated(token))
            /\ (C7_Unverifiable(token) \/ (token.present /\ ~(now < token.exp)))
                 => C7_Answers401(token))

\* C7 as amended: the token is accepted up to and including the instant
\* t + 60 minutes and rejected after it; every issued token is accepted
\* until then.
C7_TokenLifetimeInclusive ==
    /\ [][C7_Issue]_vars
    /\ [](\A token \in issued \cup ForgedTokens :
            /\ app_get_current_user(token, users, now).status = 0
                 => (token.sig = "good" /\ now <= token.exp /\ C7_Authenticated(token))
            /\ (C7_Unverifiable(token) \/ (token.present /\ now > token.exp))
                 => C7_Answers401(token)
            /\ (token \in issued /\ now <= token.exp) => C7_Authenticated(token))

\* One issued token is at the instant of its expiry, another is past it,
\* and the last request was answered 401.
C7_Witness ==
    /\ \E t1, t2 \in issued : now = t1.exp /\ now > t2.exp
    /\ last = [surface |-> "rest", status |-> 401, result |-> "error"]

\* ------------------------------------------------------------------------
\* C8
\* ------------------------------------------------------------------------
\* username is registered and password is the one it was registered with.
C8_Registered(username, password) ==
    \E u \in users : u.username = username /\ u.hashed_password.of = password

\* C8: login issues a token only for a registered username presented with
\* the password it was registered with, and the token's subject is that
\* username; a login with an unknown username or a wrong password answers
\* 400 on the REST surface and null on the GraphQL surface, issues no token
\* and changes nothing; every token handed out names a registered user.
C8_Login ==
    /\ \A token \in issued : \E u \in users : u.username = token.sub
    /\ \A username \in Usernames \cup {"mallory"}, password \in Passwords \cup {"guess"} :
        LET h == app_login(DB, username, password)
            g == gql_login(DB, username, password) IN
        IF C8_Registered(username, password)
        THEN /\ h.resp.status = 200 /\ h.resp.token.sub = username
             /\ h.resp.token.sig = "good"
             /\ h.db = [DB EXCEPT !.issued = @ \cup {h.resp.token}]
             /\ g.resp.result = "value" /\ g.resp.token = h.resp.token
             /\ g.db = h.db
        ELSE /\ h.resp.status = 400 /\ h.resp.token = NoToken /\ h.db = DB
             /\ g.resp.result = "null" /\ g.resp.token = NoToken /\ g.db = DB

\* A login was refused on the GraphQL surface after another one had
\* succeeded, with one of the two usernames registered.
C8_Witness ==
    /\ last = [surface |-> "graphql", status |-> 200, result |-> "null"]
    /\ issued # {}
    /\ Cardinality(users) = 1

\* ------------------------------------------------------------------------
\* C9
\* ------------------------------------------------------------------------
\* Position p is strictly inside the axis-parallel rectangle whose corners
\* are the positions of ring (the polygons of the inputs are rectangles).
C9_Interior(p, ring) ==
    /\ \E i, j \in DOMAIN ring : ring[i][1] < p[1] /\ p[1] < ring[j][1]
    /\ \E i, j \in DOMAIN ring : ring[i][2] < p[2] /\ p[2] < ring[j][2]

C9_Rings == {RectR, RectS}
C9_Positions == {<<1, 1>>, <<3, 1>>}

\* The JSON records of stored rows.
C9_PointJSON(r) ==
    [id |-> r.id, name |-> r.name, description |-> r.description,
     location |-> PointJSON(r.location.pos)]
C9_PolygonJSON(r) ==
    [id |-> r.id, name |-> r.name, description |-> r.description,
     area |-> PolygonJSON(r.area.rings)]

C9_Ids(items) == {r.id : r \in items}

\* Both surfaces return the stored points inside the ring and the stored
\* polygons around the position, and nothing else.
C9_Exact(token) ==
    /\ \A ring \in C9_Rings :
        LET h == app_points_within_polygon(DB, token, PolygonJSON(<<ring>>))
            g == gql_points_within_polygon(DB, token, PolygonJSON(<<ring>>))
            expected == {C9_PointJSON(r) : r \in {r \in points :
                                                   C9_Interior(r.location.pos, ring)}} IN
        /\ h.resp.status = 200 /\ h.resp.items = expected /\ h.db = DB
        /\ g.resp.result = "list" /\ g.resp.items = expected /\ g.db = DB
    /\ \A p \in C9_Positions :
        LET h == app_polygons_containing_point(DB, token, PointJSON(p))
            g == gql_polygons_containing_point(DB, token, PointJSON(p))
            expected == {C9_PolygonJSON(r) : r \in {r \in polygons :
                                                     C9_Interior(p, r.area.rings[1])}} IN
        /\ h.resp.status = 200 /\ h.resp.items = expected /\ h.db = DB
        /\ g.resp.result = "list" /\ g.resp.items = expected /\ g.db = DB

\* After a delete the point is not returned; after an update it is
\* returned exactly when its new location is inside the ring.
C9_Current(token) ==
    \A r \in points, ring \in C9_Rings :
        /\ LET d == app_delete_point(DB, token, r.id).db IN
           r.id \notin C9_Ids(app_points_within_polygon(d, token, PolygonJSON(<<ring>>)).resp.items)
        /\ \A f \in ValidPointPayloads :
            LET u == app_update_point(DB, token, r.id, f).db IN
            r.id \in C9_Ids(app_points_within_polygon(u, token, PolygonJSON(<<ring>>)).resp.items)
                <=> C9_Interior(PosOf(f.location.coordinates), ring)

\* C9: for any store contents, pointsWithinPolygon(G) returns exactly the
\* stored points strictly inside G and none outside, polygonsContainingPoint(p)
\* returns exactly the stored polygons whose area contains p, a deleted
\* point is never returned and an updated point is judged by its new
\* location.
C9_Predicates == \A token \in issued : C9_Exact(token) /\ C9_Current(token)

\* A predicate query was answered on the GraphQL surface while the store
\* holds a point inside RectR, a point outside it, and a polygon.
C9_Witness ==
    /\ last = [surface |-> "graphql", status |-> 200, result |-> "list"]
    /\ \E r1, r2 \in points :
        C9_Interior(r1.location.pos, RectR) /\ ~C9_Interior(r2.location.pos, RectR)
    /\ polygons # {}

\* ------------------------------------------------------------------------
\* C10
\* ------------------------------------------------------------------------
C10_Abs(x) == IF x < 0 THEN -x ELSE x

\* Positions a and b (degrees of longitude and latitude, within a few
\* degrees of the equator) are more than radius meters apart: a degree of
\* either ordinate is more than 110000 m there.
C10_Beyond(a, b, radius) ==
    \/ 110000 * C10_Abs(a[1] - b[1]) > radius
    \/ 110000 * C10_Abs(a[2] - b[2]) > radius

\* C10: pointsNearby(p, radiusMeters) returns every stored point whose
\* geodesic distance to p in meters is at most radiusMeters and none beyond
\* it; a stored point is returned when p is its own location and the
\* radius is not negative.
C10_NearbyMeters ==
    \A token \in issued, p \in C9_Positions, radius \in {x \in Radii : x >= 0} :
        \A h \in {app_points_nearby(DB, token, PointJSON(p), radius),
                  gql_points_nearby(DB, token, PointJSON(p), radius)} :
            /\ h.resp.result \in {"ok", "list"}
            /\ \A r \in points :
                /\ r.location.pos = p => r.id \in C9_Ids(h.resp.items)
                /\ C10_Beyond(r.location.pos, p, radius) => r.id \notin C9_Ids(h.resp.items)

\* The part of C10 that holds: a stored point is returned for a query at
\* its own location with a radius that is not negative.
C10_OwnLocation ==
    \A token \in issued, r \in points, radius \in {x \in Radii : x >= 0} :
        \A h \in {app_points_nearby(DB, token, PointJSON(r.location.pos), radius),
                  gql_points_nearby(DB, token, PointJSON(r.location.pos), radius)} :
            r.id \in C9_Ids(h.resp.items)

\* ------------------------------------------------------------------------
\* C11
\* ------------------------------------------------------------------------
\* A tuple occurs somewhere in the value.
RECURSIVE C11_HasTuple(_)
C11_HasTuple(obj) ==
    \/ obj.k = "tuple"
    \/ \E i \in DOMAIN obj.items : C11_HasTuple(obj.items[i])

\* The GeoJSON a client wrote for a stored geometry.
C11_Written(geom) ==
    IF geom.gtype = "Point" THEN PointJSON(geom.pos) ELSE PolygonJSON(geom.rings)

\* encode(decode(g)) = g, with lists at every depth.
C11_RoundTrip(g) ==
    LET d == shape(g)
        e == tuple_to_list(mapping(d.geom)) IN
    d.ok /\ e = g /\ ~C11_HasTuple(e.coordinates)

\* C11: for any valid GeoJSON Point or Polygon g, encode(decode(g)) is
\* structurally equal to g, with every coordinate pair and every ring a
\* list and no tuple left at any depth; so it is for the geometry of every
\* stored record, as point_to_schema and polygon_to_schema encode it.
C11_CodecRoundTrip ==
    /\ \A r \in points :
        /\ C11_RoundTrip(C11_Written(r.location))
        /\ point_to_schema(r).location = C11_Written(r.location)
    /\ \A r \in polygons :
        /\ C11_RoundTrip(C11_Written(r.area))
        /\ polygon_to_schema(r).area = C11_Written(r.area)

\* The part of C11 that holds: the round trip of a Point, and of both kinds
\* once the response is written as JSON.
C11_PointsAndWire ==
    /\ \A r \in points : C11_RoundTrip(C11_Written(r.location))
    /\ \A r \in polygons :
        ToWire(polygon_to_schema(r).area) = C11_Written(r.area)

\* ------------------------------------------------------------------------
\* C12
\* ------------------------------------------------------------------------
\* A points table of n rows and a polygons table of n rows, in id order.
C12_PointRows(n) ==
    [i \in 1..n |-> [id |-> i, name |-> "A", description |-> "x",
                     location |-> PointGeom(<<1, 1>>)]]
C12_PolygonRows(n) ==
    [i \in 1..n |-> [id |-> i, name |-> "R", description |-> "r",
                     area |-> PolygonGeom(<<RectR>>)]]
C12_Range(o) == {o[i] : i \in DOMAIN o}

C12_Sizes == {0, 1, DefaultLimit, DefaultLimit + 1}
C12_Offsets == {-1, 0, 1}
C12_Limits == {1, DefaultLimit, DefaultLimit + 1}

\* A list answered with records took an offset that is not negative and
\* holds at most DefaultLimit records.
C12_Bounded(h) ==
    h.resp.result \in {"ok", "list"} => Cardinality(h.resp.items) <= DefaultLimit

\* C12: list(offset, limit) accepts only an offset >= 0 and caps the limit
\* to a fixed maximum (the default, 100): for any store size and any
\* offset and limit of the caller, a list operation of either surface
\* returns at most that many records.
C12_ListBounded ==
    \A token \in issued, n \in C12_Sizes :
        LET ps == C12_PointRows(n)
            gs == C12_PolygonRows(n)
            db == [DB EXCEPT !.points = C12_Range(ps), !.polygons = C12_Range(gs)] IN
        /\ \A skip \in C12_Offsets, limit \in C12_Limits :
            /\ C12_Bounded(app_list_points(db, token, skip, limit, ps))
            /\ C12_Bounded(app_list_polygons(db, token, skip, limit, gs))
            /\ skip < 0 => app_list_points(db, token, skip, limit, ps).resp.result = "error"
            /\ skip < 0 => app_list_polygons(db, token, skip, limit, gs).resp.result = "error"
        /\ C12_Bounded(gql_points(db, token))
        /\ C12_Bounded(gql_polygons(db, token))

\* The part of C12 that holds: a REST list returns at most limit records,
\* and at most DefaultLimit when the caller gives no limit.
C12_AtMostLimit ==
    \A token \in issued, n \in C12_Sizes, skip \in C12_Offsets, limit \in C12_Limits :
        LET ps == C12_PointRows(n)
            db == [DB EXCEPT !.points = C12_Range(ps)]
            h == app_list_points(db, token, skip, limit, ps) IN
        h.resp.result = "ok" => (skip >= 0 /\ Cardinality(h.resp.items) <= limit)

\* ------------------------------------------------------------------------
\* C13
\* ------------------------------------------------------------------------
\* Geometries that do not decode, and geometries of the other kind.
C13_NotAPolygon == {ShortRingPolygon, NonArrayPolygon, PointJSON(<<1, 1>>)}
C13_NotAPoint == {OneOrdinatePoint, NonArrayPoint, PolygonJSON(<<RectR>>)}

\* The predicate queries of both surfaces on such an input.
C13_Calls(db, token) ==
    {app_points_within_polygon(db, token, g) : g \in C13_NotAPolygon}
    \cup {gql_points_within_polygon(db, token, g) : g \in C13_NotAPolygon}
    \cup {app_polygons_containing_point(db, token, g) : g \in C13_NotAPoint}
    \cup {gql_polygons_containing_point(db, token, g) : g \in C13_NotAPoint}
    \cup {app_points_nearby(db, token, c[1], c[2]) : c \in C13_NotAPoint \X {0, 2}}
    \cup {gql_points_nearby(db, token, c[1], c[2]) : c \in C13_NotAPoint \X {0, 2}}

\* C13: each predicate query fails with InvalidGeometry (422 on the REST
\* surface, an error on the GraphQL surface) when its input geometry does
\* not decode or is not of the kind the query expects; it never answers
\* such an input with a result list and never modifies the store.
C13_QueriesRejectInvalid ==
    \A token \in issued : \A h \in C13_Calls(DB, token) :
        /\ h.resp.result = "error"
        /\ h.resp.surface = "rest" => h.resp.status = 422
        /\ h.resp.written = {}
        /\ h.db = DB

\* The part of C13 that holds: the queries never modify the store, and the
\* REST surface answers 422 to a geometry that does not decode.
C13_ReadOnly ==
    \A token \in issued :
        /\ \A h \in C13_Calls(DB, token) : h.resp.written = {} /\ h.db = DB
        /\ \A g \in {ShortRingPolygon, NonArrayPolygon} :
            app_points_within_polygon(DB, token, g).resp.status = 422
        /\ \A g \in {OneOrdinatePoint, NonArrayPoint} :
            /\ app_polygons_containing_point(DB, token, g).resp.status = 422
            /\ app_points_nearby(DB, token, g, 2).resp.status = 422

\* ------------------------------------------------------------------------
\* C14
\* ------------------------------------------------------------------------
\* The same register, create, update or delete request with the same
\* arguments on the REST surface (in database r) and on the GraphQL surface
\* (in database g), as pairs of outcomes.
C14_Requests(r, g, token) ==
    {<<app_register(r, c[1], c[2]), gql_register(g, c[1], c[2])>> :
        c \in Usernames \X Passwords}
    \cup {<<app_create_point(r, token, p), gql_create_point(g, token, p)>> :
            p \in GraphPointPayloads}
    \cup {<<app_update_point(r, token, c[1], c[2]), gql_update_point(g, token, c[1], c[2])>> :
            c \in PointIds \X GraphPointPayloads}
    \cup {<<app_delete_point(r, token, id), gql_delete_point(g, token, id)>> :
            id \in PointIds}
    \cup {<<app_create_polygon(r, token, p), gql_create_polygon(g, token, p)>> :
            p \in GraphPolygonPayloads}
    \cup {<<app_update_polygon(r, token, c[1], c[2]), gql_update_polygon(g, token, c[1], c[2])>> :
            c \in PolygonIds \X GraphPolygonPayloads}
    \cup {<<app_delete_polygon(r, token, id), gql_delete_polygon(g, token, id)>> :
            id \in PolygonIds}

\* The same get, list or predicate query on both surfaces.
C14_Queries(r, g, token) ==
    {<<app_get_point(r, token, id), gql_point(g, token, id)>> : id \in PointIds}
    \cup {<<app_get_polygon(r, token, id), gql_polygon(g, token, id)>> : id \in PolygonIds}
    \cup {<<app_list_points(r, token, 0, DefaultLimit, o), gql_points(g, token)>> :
            o \in row_orders(r.points)}
    \cup {<<app_list_polygons(r, token, 0, DefaultLimit, o), gql_polygons(g, token)>> :
            o \in row_orders(r.polygons)}
    \cup {<<app_points_within_polygon(r, token, q), gql_points_within_polygon(g, token, q)>> :
            q \in QueryPolygons}
    \cup {<<app_polygons_containing_point(r, token, q),
            gql_polygons_containing_point(g, token, q)>> : q \in QueryPoints}
    \cup {<<app_points_nearby(r, token, c[1], c[2]), gql_points_nearby(g, token, c[1], c[2])>> :
            c \in QueryPoints \X Radii}

C14_Stores(db) == <<db.users, db.points, db.polygons>>

\* After the same request the three stores are equal and every query
\* returns the records of the same ids (none, when it fails or finds none).
C14_Agree(token) ==
    \A step \in C14_Requests(DB, DB, token) :
        /\ C14_Stores(step[1].db) = C14_Stores(step[2].db)
        /\ \A q \in C14_Queries(step[1].db, step[2].db, token) :
            C9_Ids(q[1].resp.items) = C9_Ids(q[2].resp.items)

\* C14: from the same store, the same register, create, update or delete
\* request with the same arguments (valid or invalid), sent with the same
\* Authorization header to the REST surface and to the GraphQL surface,
\* leaves the users, points and polygons stores in the same state, and
\* every get, list and predicate query then returns the same records on
\* both.
C14_SurfacesAgree == \A token \in DataHeaders : C14_Agree(token)

\* The part of C14 that holds: the surfaces agree on the requests that
\* carry a valid bearer token.
C14_AgreeWithBearer == \A token \in issued : C14_Agree(token)

\* ------------------------------------------------------------------------
\* C15
\* ------------------------------------------------------------------------
\* Worker w has served an update of record id whose commit went through.
C15_Updated(w, id) ==
    /\ sessions[w].op = "update_point"
    /\ sessions[w].id = id
    /\ sessions[w].pc = "done"
    /\ sessions[w].resp.status = 200

\* The stored record carries the complete field set of the request.
C15_Carries(row, point) ==
    /\ row.name = point.name
    /\ row.description = point.description
    /\ row.location = shape(point.location).geom

\* C15: when two update requests for the same record have run, in any
\* interleaving of their read, assignment and commit, the record finally
\* stored equals the complete field set of one of the two requests; no
\* record mixes fields of one update with fields of the other.
C15_LastWriteWins ==
    \A id \in PointIds :
        (C15_Updated("w1", id) /\ C15_Updated("w2", id)) =>
            \E w \in Workers : C15_Carries(get_point(points, id), sessions[w].args)

\* The part of C15 that holds: the geometry stored is that of one of the
\* two requests.
C15_Geometry ==
    \A id \in PointIds :
        (C15_Updated("w1", id) /\ C15_Updated("w2", id)) =>
            \E w \in Workers :
                get_point(points, id).location = shape(sessions[w].args.location).geom

\* ------------------------------------------------------------------------
\* C16
\* ------------------------------------------------------------------------
\* In this step the commit of worker w's create or update, whose geometry
\* shape() has accepted, meets a failure of the database.
C16_CommitFails(w) ==
    /\ sessions[w].fault = "none"
    /\ sessions'[w].fault # "none"
    /\ sessions'[w].op \in {"create_point", "update_point"}
    /\ shape(sessions'[w].args.location).ok

\* C16: a failure of the database during the commit of a create or update
\* whose geometry is valid is answered with 500, not with 422, and the
\* write in flight is rolled back: the store is unchanged.
C16_PersistenceFailure ==
    [][\A w \in Workers :
          C16_CommitFails(w) =>
              /\ sessions'[w].resp.status = 500
              /\ points' = points]_vars

\* The part of C16 that holds: the store is unchanged by a commit that
\* fails, and a create answers 500.
C16_RolledBack ==
    [][\A w \in Workers :
          C16_CommitFails(w) =>
              /\ points' = points
              /\ sessions'[w].op = "create_point" => sessions'[w].resp.status = 500]_vars

\* ------------------------------------------------------------------------
\* C17
\* ------------------------------------------------------------------------
\* Both workers have served a register request for the same username, which
\* no user had before.
C17_BothRegistered(username) ==
    /\ username # "alice"
    /\ \A w \in Workers :
        /\ sessions[w].op = "create_user"
        /\ sessions[w].pc = "done"
        /\ sessions[w].args.username = username

\* C17: when two register requests for the same new username have run, in
\* any interleaving of their add, commit and refresh, exactly one of them
\* succeeded, the other was answered 400 "Username already registered",
\* and exactly one user record has that username.
C17_OneRegistration ==
    \A username \in Usernames :
        C17_BothRegistered(username) =>
            /\ \E w \in Workers :
                /\ sessions[w].resp.status = 200
                /\ sessions[w].resp.body \in users
                /\ \A v \in Workers \ {w} :
                    /\ sessions[v].resp.status = 400
                    /\ sessions[v].resp.detail = "Username already registered"
            /\ Cardinality(UsersNamed(users, username)) = 1

\* No second record with a username appears while the requests are in
\* progress either.
C17_UniqueAlways ==
    \A username \in Usernames : Cardinality(UsersNamed(users, username)) <= 1

\* Two register requests for "bob" with different passwords have both been
\* served.
C17_Witness ==
    /\ C17_BothRegistered("bob")
    /\ sessions["w1"].args.password # sessions["w2"].args.password

\* ------------------------------------------------------------------------
\* C18
\* ------------------------------------------------------------------------
\* Worker u has served an update with a valid geometry and worker d a
\* delete of the same record, which existed when both arrived; no failure
\* of the database occurred.
C18_UpdateAndDelete(u, d, id) ==
    /\ sessions[u].op = "update_point"
    /\ sessions[d].op = "delete_point"
    /\ sessions[u].pc = "done"
    /\ sessions[d].pc = "done"
    /\ sessions[u].id = id
    /\ sessions[d].id = id
    /\ id = 1
    /\ sessions[u].fault = "none"
    /\ shape(sessions[u].args.location).ok

\* C18: when update(id) and delete(id) of an existing record have run, in
\* any interleaving, the update was answered with the updated record or
\* with 404, never with an invalid-geometry error for its valid geometry,
\* and the record is absent once both have finished.
C18_UpdateVersusDelete ==
    \A u, d \in Workers, id \in PointIds :
        C18_UpdateAndDelete(u, d, id) =>
            /\ \/ /\ sessions[u].resp.status = 200
                  /\ C15_Carries(sessions[u].resp.body, sessions[u].args)
               \/ sessions[u].resp.status = 404
            /\ get_point(points, id) = NoRow

\* The part of C18 that holds: the record is absent once both requests
\* have finished, whatever the update was answered.
C18_NeverBroughtBack ==
    \A u, d \in Workers, id \in PointIds :
        C18_UpdateAndDelete(u, d, id) => get_point(points, id) = NoRow

====
